---- MODULE Spec2Model ----
(***************************************************************************)
(* Model of the kernel-debugger control plane of hprdbghv/Kd.c: the        *)
(* breakpoint entry point, the cross-core halt coordinator, the command    *)
(* dispatcher and the response-packet sender, one thread of control per    *)
(* logical core.  Every spin-lock acquisition and every access to state    *)
(* that another core can race with is a step of its own.                   *)
(***************************************************************************)
EXTENDS Integers, Naturals, Sequences, FiniteSets, TLC

(* Number of logical cores, KeQueryActiveProcessorCount(0). *)
CoreCount == 2

Cores == 0 .. (CoreCount - 1)

(* Core ids a change-core packet can name; CoreCount is the out-of-range id. *)
CoreIds == 0 .. CoreCount

NoCore == -1

(* EventDetails == NULL *)
NoEvent == 0

(* Tags an EventDetails can carry. *)
Tags == {5}

Reasons == {"NOT_PAUSED", "EVENT_TRIGGERED", "BREAKPOINT_HIT", "STEPPED",
            "CORE_SWITCHED"}

(* DEBUGGER_REMOTE_PACKET_REQUESTED_ACTION values sent by the debuggee. *)
ResponseActions == {"PAUSED", "RES_CHANGE_CORE", "RES_FLUSH", "RES_READ_REGS",
                    "RES_CHANGE_PROCESS", "RES_SCRIPT", "RES_REG_EVENT",
                    "RES_ADD_ACTION", "RES_QUERY_MODIFY", "RES_FORMATS"}

(* Responses sent on behalf of user mode once halts are suppressed. *)
UserResponses == {"RES_REG_EVENT", "RES_ADD_ACTION", "RES_QUERY_MODIFY",
                  "RES_FORMATS"}

(* Actions of the packets the debugger sends while the debuggee is halted. *)
Commands == {"CONTINUE", "STEP", "CLOSE_AND_UNLOAD", "CHANGE_CORE", "FLUSH",
             "READ_REGS", "CHANGE_PROCESS", "RUN_SCRIPT", "USER_INPUT",
             "REGISTER_EVENT", "ADD_ACTION", "QUERY_MODIFY", "CLEAR_EVENTS",
             "UNKNOWN"}

(* No OptionalBuffer: OptionalBufferLength is 0. *)
NoBuffer == [Length |-> 0]

NoPkt == [act |-> "NO_ACTION", core |-> NoCore, reason |-> "NOT_PAUSED",
          tag |-> NoEvent, res |-> "NONE", OptionalBuffer |-> NoBuffer]

(* RtlZeroMemory(&g_IgnoreBreaksToDebugger, ...) *)
IgnoreZero == [flag |-> FALSE, action |-> "NO_ACTION"]

(***************************************************************************)
(* The serial protocol: bytes, framing and checksum                        *)
(***************************************************************************)

(* Capacity of the receive buffer in bytes. *)
MaxSerialPacketSize == 12

(* Longest OptionalBuffer handed to KdResponsePacketToDebugger, and longest *)
(* run of arbitrary bytes in a raw frame.                                   *)
MaxPayloadLen == 4

(* The four characters that end a buffer on the wire. *)
SERIAL_END_OF_BUFFER_CHAR_1 == 0

SERIAL_END_OF_BUFFER_CHAR_2 == 128

SERIAL_END_OF_BUFFER_CHAR_3 == 238

SERIAL_END_OF_BUFFER_CHAR_4 == 255

EndOfBuffer == <<SERIAL_END_OF_BUFFER_CHAR_1, SERIAL_END_OF_BUFFER_CHAR_2,
                 SERIAL_END_OF_BUFFER_CHAR_3, SERIAL_END_OF_BUFFER_CHAR_4>>

(* A byte that is none of the end characters. *)
OtherByte == 146

(* The byte values the transport is made to carry. *)
ByteSamples == {SERIAL_END_OF_BUFFER_CHAR_1, SERIAL_END_OF_BUFFER_CHAR_2,
                SERIAL_END_OF_BUFFER_CHAR_3, SERIAL_END_OF_BUFFER_CHAR_4,
                OtherByte}

(* DEBUGGER_REMOTE_PACKET, one byte per field: Checksum at offset 0, then   *)
(* Indicator, TypeOfThePacket and RequestedActionOfThePacket.               *)
INDICATOR_OF_HYPERDBG_PACKER == 72

OffsetOfIndicator == 1

OffsetOfTypeOfThePacket == 2

OffsetOfRequestedAction == 3

SizeOfPacket == 4

(* DEBUGGER_REMOTE_PACKET_TYPE *)
DEBUGGER_TO_DEBUGGEE_EXECUTE_ON_VMX_ROOT == 1

DEBUGGEE_TO_DEBUGGER == 2

(* DEBUGGER_MODIFY_EVENTS_TYPE carried by a query-and-modify packet. *)
DEBUGGER_MODIFY_EVENTS_QUERY_STATE == 1

DEBUGGER_MODIFY_EVENTS_CLEAR == 2

DEBUGGER_MODIFY_EVENTS_ENABLE == 3

DEBUGGER_MODIFY_EVENTS_DISABLE == 4

(* A value that is no DEBUGGER_MODIFY_EVENTS_TYPE. *)
InvalidTypeOfAction == 5

DEBUGGER_MODIFY_EVENTS_APPLY_TO_ALL_TAG == 255

(* A tag no event carries. *)
InvalidTag == 6

(* DebuggerIsTagValid: an event with this tag is registered. *)
DebuggerIsTagValid(Tag) == Tag \in Tags

(* DEBUGGER_REMOTE_PACKET_REQUESTED_ACTION: the code of an action is its    *)
(* place in this list.                                                      *)
RequestedActions ==
    <<"CONTINUE", "STEP", "CLOSE_AND_UNLOAD", "CHANGE_CORE", "FLUSH", "READ_REGS",
      "CHANGE_PROCESS", "RUN_SCRIPT", "USER_INPUT", "REGISTER_EVENT", "ADD_ACTION",
      "QUERY_MODIFY", "PAUSED", "RES_CHANGE_CORE", "RES_FLUSH", "RES_READ_REGS",
      "RES_CHANGE_PROCESS", "RES_SCRIPT", "RES_REG_EVENT", "RES_ADD_ACTION",
      "RES_QUERY_MODIFY", "RES_FORMATS">>

ActionCode(action) ==
    IF \E i \in DOMAIN RequestedActions : RequestedActions[i] = action
    THEN CHOOSE i \in DOMAIN RequestedActions : RequestedActions[i] = action
    ELSE Len(RequestedActions) + 1

(* The case of the dispatcher's switch a received packet selects. *)
CommandOf(code, TypeOfAction) ==
    IF code \in DOMAIN RequestedActions /\ RequestedActions[code] \in Commands
    THEN IF RequestedActions[code] = "QUERY_MODIFY"
              /\ TypeOfAction = DEBUGGER_MODIFY_EVENTS_CLEAR
         THEN "CLEAR_EVENTS"
         ELSE RequestedActions[code]
    ELSE "UNKNOWN"

(* KdComputeDataChecksum: the sum of the bytes in a BYTE. *)
RECURSIVE KdComputeDataChecksum(_)
KdComputeDataChecksum(Buffer) ==
    IF Buffer = <<>>
    THEN 0
    ELSE (Head(Buffer) + KdComputeDataChecksum(Tail(Buffer))) % 256

(* KdResponsePacketToDebugger: the bytes of the packet, the header with its *)
(* checksum followed by the optional buffer.                                *)
KdResponsePacket(PacketType, Response, OptionalBuffer) ==
    LET Packet == <<0, INDICATOR_OF_HYPERDBG_PACKER, PacketType, Response>>
        Checksum ==
            IF OptionalBuffer = <<>>
            THEN KdComputeDataChecksum(Tail(Packet))
            ELSE (KdComputeDataChecksum(Tail(Packet))
                    + KdComputeDataChecksum(OptionalBuffer)) % 256
    IN  <<Checksum>> \o Tail(Packet) \o OptionalBuffer

(* SerialConnectionSend: the bytes followed by the end of buffer. *)
SerialConnectionSend(Bytes) == Bytes \o EndOfBuffer

(* CHAR RecvBuffer[MaxSerialPacketSize] = {0} *)
ZeroBuffer == [i \in 0 .. (MaxSerialPacketSize - 1) |-> 0]

(* KdCheckForTheEndOfTheBuffer: the test *)
KdCheckForTheEndOfTheBuffer(CurrentLoopIndex, Buffer) ==
    /\ ~(CurrentLoopIndex <= 3)
    /\ Buffer[CurrentLoopIndex] = SERIAL_END_OF_BUFFER_CHAR_4
    /\ Buffer[CurrentLoopIndex - 1] = SERIAL_END_OF_BUFFER_CHAR_3
    /\ Buffer[CurrentLoopIndex - 2] = SERIAL_END_OF_BUFFER_CHAR_2
    /\ Buffer[CurrentLoopIndex - 3] = SERIAL_END_OF_BUFFER_CHAR_1

(* KdCheckForTheEndOfTheBuffer: the end characters are cleared *)
ClearTheEnd(ActualBufferLength, Buffer) ==
    [i \in DOMAIN Buffer |->
        IF i \in (ActualBufferLength - 3) .. ActualBufferLength THEN 0 ELSE Buffer[i]]

(* The loop of KdRecvBuffer over the bytes the transport delivers.  Stored  *)
(* is the set of indexes written.  When the bytes run out before the loop   *)
(* ends the routine keeps polling and nothing is returned.                  *)
RECURSIVE KdRecvLoop(_, _, _, _)
KdRecvLoop(Input, Buffer, Loop, Stored) ==
    IF Input = <<>>
    THEN [Status |-> "polling", Length |-> 0, Buffer |-> Buffer, Rest |-> <<>>,
          Stored |-> Stored]
    ELSE IF ~(MaxSerialPacketSize > Loop)
    THEN [Status |-> "failed", Length |-> 0, Buffer |-> Buffer,
          Rest |-> Tail(Input), Stored |-> Stored]
    ELSE LET Saved == IF Loop \in DOMAIN Buffer
                      THEN [Buffer EXCEPT ![Loop] = Head(Input)]
                      ELSE Buffer
         IN  IF KdCheckForTheEndOfTheBuffer(Loop, Saved)
             THEN [Status |-> "received", Length |-> Loop - 3,
                   Buffer |-> ClearTheEnd(Loop, Saved), Rest |-> Tail(Input),
                   Stored |-> Stored \cup {Loop}]
             ELSE KdRecvLoop(Tail(Input), Saved, Loop + 1, Stored \cup {Loop})

KdRecvBuffer(Input) == KdRecvLoop(Input, ZeroBuffer, 0, {})

(* The bytes of the buffer from index From, Length of them. *)
BytesOf(Buffer, From, Length) ==
    [i \in 1 .. Length |-> IF (From + i - 1) \in DOMAIN Buffer
                           THEN Buffer[From + i - 1] ELSE 0]

(* The checksum test of the dispatcher on a received buffer. *)
ChecksumIsValid(Buffer, RecvBufferLength) ==
    KdComputeDataChecksum(BytesOf(Buffer, OffsetOfIndicator, RecvBufferLength - 1))
        = Buffer[0]

(* What one iteration of the dispatch loop makes of the bytes it receives.  *)
Verdict_ChecksumFirst(r) ==
    IF r.Status = "failed" THEN "too_large"
    ELSE IF ~ChecksumIsValid(r.Buffer, r.Length) THEN "checksum"
    ELSE IF r.Buffer[OffsetOfIndicator] # INDICATOR_OF_HYPERDBG_PACKER THEN "break"
    ELSE IF r.Buffer[OffsetOfTypeOfThePacket] # DEBUGGER_TO_DEBUGGEE_EXECUTE_ON_VMX_ROOT
    THEN "type"
    ELSE "none"

Verdict(r) ==
    IF r.Status = "failed" THEN "too_large"
    ELSE IF r.Buffer[OffsetOfIndicator] # INDICATOR_OF_HYPERDBG_PACKER THEN "break"
    ELSE IF ~ChecksumIsValid(r.Buffer, r.Length) THEN "checksum"
    ELSE IF r.Buffer[OffsetOfTypeOfThePacket] # DEBUGGER_TO_DEBUGGEE_EXECUTE_ON_VMX_ROOT
    THEN "type"
    ELSE "none"

(* All sequences over S of length at most n. *)
RECURSIVE SeqsUpTo(_, _)
SeqsUpTo(S, n) ==
    IF n = 0
    THEN {<<>>}
    ELSE LET Shorter == SeqsUpTo(S, n - 1)
         IN  Shorter \cup {Append(s, b) : s \in Shorter, b \in S}

(* k bytes that are no end characters. *)
Pad(k) == [i \in 1 .. k |-> OtherByte]

(* The contents of the raw frames given to the transport: up to             *)
(* MaxPayloadLen arbitrary bytes, before or after a run of other bytes long *)
(* enough to overrun the receive buffer.                                    *)
Contents ==
    LET Runs == {Pad(k) : k \in 0 .. (MaxSerialPacketSize - 3)}
        Arbitrary == SeqsUpTo(ByteSamples, MaxPayloadLen)
    IN  {run \o s : run \in Runs, s \in Arbitrary}
            \cup {s \o run : run \in Runs, s \in Arbitrary}

VARIABLES
    pc,                                  \* position of each core
    via,                                 \* caller of the coordinator: "trap" | "nmi" | "callback" | "none"
    Lock,                                \* g_GuestState[i].DebuggingState.Lock
    CurrentOperatingCore,                \* ...DebuggingState.CurrentOperatingCore
    DoNotNmiNotifyOtherCoresByThisCore,  \* ...DebuggingState.DoNotNmiNotifyOtherCoresByThisCore
    EnableInterruptFlagOnContinue,       \* ...DebuggingState.EnableInterruptFlagOnContinue
    WaitForStepOnMtf,                    \* ...DebuggingState.WaitForStepOnMtf
    GuestIF,                             \* RFLAGS.IF in each core's GUEST_RFLAGS
    nmiPending,                          \* a halt NMI was sent to the core and not yet taken
    DebuggerHandleBreakpointLock,
    DebuggerResponseLock,
    g_DebuggeeHaltReason,
    g_DebuggeeHaltTag,                   \* g_DebuggeeHaltContext / g_DebuggeeHaltTag
    g_IgnoreBreaksToDebugger,
    Reason,                              \* Reason argument of the entry point
    EventDetails,                        \* EventDetails argument (its tag, or NoEvent)
    idx,                                 \* loop counter i of KdContinueDebuggee
    Packet,                              \* packet a core is sending
    after,                               \* where the core continues after the send
    NewCore,                             \* ChangeCorePacket->NewCore while UnlockTheNewCore
    Wire,                                \* bytes the transport holds for KdHyperDbgRecvByte
    Diag,                                \* LogError / DbgBreakPoint of the last dispatch iteration
    Sent,                                \* what was handed to the transport
    Received,                            \* what the last call of KdRecvBuffer returned
    RecvBuffer,                          \* RecvBuffer and the result of KdRecvBuffer in each core's dispatcher
    WaitingForNmi,                       \* ...DebuggingState.WaitingForNmi
    NmiCall                              \* Handled argument and return value of KdNmiCallback on each core

kd == <<pc, via, Lock, CurrentOperatingCore, DoNotNmiNotifyOtherCoresByThisCore,
          EnableInterruptFlagOnContinue, WaitForStepOnMtf, GuestIF, nmiPending,
          DebuggerHandleBreakpointLock, DebuggerResponseLock, g_DebuggeeHaltReason,
          g_DebuggeeHaltTag, g_IgnoreBreaksToDebugger, Reason, EventDetails, idx,
          Packet, after, NewCore>>

serial == <<Wire, Diag, Sent, Received, RecvBuffer>>

nmi == <<WaitingForNmi, NmiCall>>

vars == <<kd, serial, nmi>>

perCore == <<DoNotNmiNotifyOtherCoresByThisCore, EnableInterruptFlagOnContinue,
             WaitForStepOnMtf, GuestIF>>

halt == <<g_DebuggeeHaltReason, g_DebuggeeHaltTag>>

args == <<Reason, EventDetails>>

sendLocals == <<Packet, after>>

(* Nothing was handed to the transport. *)
NoSent == [Kind |-> "nothing", Bytes |-> <<>>]

(* No KdNmiCallback has run on the core. *)
NoCall == [Status |-> "none", Handled |-> FALSE, Returned |-> FALSE,
           At |-> "run", Via |-> "none"]

(* KdRecvBuffer has not been called. *)
NoReceived == [Status |-> "none", Length |-> 0, Buffer |-> ZeroBuffer,
               Rest |-> <<>>, Stored |-> {}]

Init ==
    /\ pc = [c \in Cores |-> "run"]
    /\ via = [c \in Cores |-> "none"]
    /\ Lock = [c \in Cores |-> FALSE]
    /\ CurrentOperatingCore = [c \in Cores |-> FALSE]
    /\ DoNotNmiNotifyOtherCoresByThisCore = [c \in Cores |-> FALSE]
    /\ EnableInterruptFlagOnContinue = [c \in Cores |-> FALSE]
    /\ WaitForStepOnMtf = [c \in Cores |-> FALSE]
    /\ GuestIF = [c \in Cores |-> TRUE]
    /\ nmiPending = [c \in Cores |-> FALSE]
    /\ DebuggerHandleBreakpointLock = FALSE
    /\ DebuggerResponseLock = FALSE
    /\ g_DebuggeeHaltReason = "NOT_PAUSED"
    /\ g_DebuggeeHaltTag = NoEvent
    /\ g_IgnoreBreaksToDebugger = IgnoreZero
    /\ Reason = [c \in Cores |-> "NOT_PAUSED"]
    /\ EventDetails = [c \in Cores |-> NoEvent]
    /\ idx = [c \in Cores |-> 0]
    /\ Packet = [c \in Cores |-> NoPkt]
    /\ after = [c \in Cores |-> "run"]
    /\ NewCore = [c \in Cores |-> NoCore]
    /\ Wire = <<>>
    /\ Diag = {}
    /\ Sent = NoSent
    /\ Received = NoReceived
    /\ RecvBuffer = [c \in Cores |-> NoReceived]
    /\ WaitingForNmi = [c \in Cores |-> FALSE]
    /\ NmiCall = [c \in Cores |-> NoCall]

(***************************************************************************)
(* Traps: a running core leaves the guest and calls the entry point.       *)
(***************************************************************************)

(* A #BP / #DB / event exit on core c; the guest's RFLAGS.IF is whatever   *)
(* the guest had at the exit.                                              *)
Trap(c) ==
    /\ pc[c] = "run"
    /\ ~WaitForStepOnMtf[c]
    /\ \E ev \in {NoEvent} \cup Tags, if \in BOOLEAN :
          /\ Reason' = [Reason EXCEPT ![c] =
                          IF ev = NoEvent THEN "BREAKPOINT_HIT" ELSE "EVENT_TRIGGERED"]
          /\ EventDetails' = [EventDetails EXCEPT ![c] = ev]
          /\ GuestIF' = [GuestIF EXCEPT ![c] =
                          IF EnableInterruptFlagOnContinue[c] THEN GuestIF[c] ELSE if]
    /\ pc' = [pc EXCEPT ![c] = "e_bplock"]
    /\ via' = [via EXCEPT ![c] = "trap"]
    /\ UNCHANGED <<Lock, CurrentOperatingCore, DoNotNmiNotifyOtherCoresByThisCore,
                   EnableInterruptFlagOnContinue, WaitForStepOnMtf, nmiPending,
                   DebuggerHandleBreakpointLock, DebuggerResponseLock, halt,
                   g_IgnoreBreaksToDebugger, idx, sendLocals, NewCore>>
    /\ UNCHANGED <<serial, nmi>>

(* The monitor-trap-flag exit after a Step: the trap layer's callback       *)
(* re-enters the entry point with reason step-finished.                     *)
MtfTrap(c) ==
    /\ pc[c] = "run"
    /\ WaitForStepOnMtf[c]
    /\ WaitForStepOnMtf' = [WaitForStepOnMtf EXCEPT ![c] = FALSE]
    /\ Reason' = [Reason EXCEPT ![c] = "STEPPED"]
    /\ EventDetails' = [EventDetails EXCEPT ![c] = NoEvent]
    /\ pc' = [pc EXCEPT ![c] = "e_bplock"]
    /\ via' = [via EXCEPT ![c] = "trap"]
    /\ UNCHANGED <<Lock, CurrentOperatingCore, DoNotNmiNotifyOtherCoresByThisCore,
                   EnableInterruptFlagOnContinue, GuestIF, nmiPending,
                   DebuggerHandleBreakpointLock, DebuggerResponseLock, halt,
                   g_IgnoreBreaksToDebugger, idx, sendLocals, NewCore>>
    /\ UNCHANGED <<serial, nmi>>

(* The NMI exit of a core that runs guest code: the trap layer calls        *)
(* KdHandleNmi.                                                             *)
NmiVmexit(c) ==
    /\ pc[c] = "run"
    /\ nmiPending[c]
    /\ nmiPending' = [nmiPending EXCEPT ![c] = FALSE]
    /\ pc' = [pc EXCEPT ![c] = "n_lock"]
    /\ via' = [via EXCEPT ![c] = "nmi"]
    /\ EventDetails' = [EventDetails EXCEPT ![c] = NoEvent]
    /\ UNCHANGED <<Lock, CurrentOperatingCore, perCore, DebuggerHandleBreakpointLock,
                   DebuggerResponseLock, halt, g_IgnoreBreaksToDebugger, Reason, idx,
                   sendLocals, NewCore>>
    /\ UNCHANGED <<serial, nmi>>

(***************************************************************************)
(* KdHandleBreakpointAndDebugBreakpoints                                   *)
(***************************************************************************)

(* Variant: the entry point does not wait for the breakpoint lock. *)
EntryLockBreakpoint_NoWait(c) ==
    /\ pc[c] = "e_bplock"
    /\ DebuggerHandleBreakpointLock' = TRUE
    /\ pc' = [pc EXCEPT ![c] = "e_check"]
    /\ UNCHANGED <<via, Lock, CurrentOperatingCore, perCore, nmiPending,
                   DebuggerResponseLock, halt, g_IgnoreBreaksToDebugger, args, idx,
                   sendLocals, NewCore>>
    /\ UNCHANGED <<serial, nmi>>

(* SpinlockLock(&DebuggerHandleBreakpointLock) *)
EntryLockBreakpoint(c) ==
    /\ pc[c] = "e_bplock"
    /\ ~DebuggerHandleBreakpointLock
    /\ DebuggerHandleBreakpointLock' = TRUE
    /\ pc' = [pc EXCEPT ![c] = "e_check"]
    /\ UNCHANGED <<via, Lock, CurrentOperatingCore, perCore, nmiPending,
                   DebuggerResponseLock, halt, g_IgnoreBreaksToDebugger, args, idx,
                   sendLocals, NewCore>>
    /\ UNCHANGED <<serial, nmi>>

(* Variant: the early return forgets to release the breakpoint lock. *)
EntryCheckIgnore_KeepsLock(c) ==
    /\ pc[c] = "e_check"
    /\ IF g_IgnoreBreaksToDebugger.flag
       THEN /\ UNCHANGED DebuggerHandleBreakpointLock
            /\ pc' = [pc EXCEPT ![c] = "run"]
            /\ via' = [via EXCEPT ![c] = "none"]
            /\ Reason' = [Reason EXCEPT ![c] = "NOT_PAUSED"]
            /\ EventDetails' = [EventDetails EXCEPT ![c] = NoEvent]
       ELSE /\ pc' = [pc EXCEPT ![c] = "e_lockself"]
            /\ UNCHANGED <<DebuggerHandleBreakpointLock, via, args>>
    /\ UNCHANGED <<Lock, CurrentOperatingCore, perCore, nmiPending,
                   DebuggerResponseLock, halt, g_IgnoreBreaksToDebugger, idx,
                   sendLocals, NewCore>>
    /\ UNCHANGED <<serial, nmi>>

(* if (g_IgnoreBreaksToDebugger.PauseBreaksUntilASpecialMessageSent) { unlock; return; } *)
EntryCheckIgnore(c) ==
    /\ pc[c] = "e_check"
    /\ IF g_IgnoreBreaksToDebugger.flag
       THEN /\ DebuggerHandleBreakpointLock' = FALSE
            /\ pc' = [pc EXCEPT ![c] = "run"]
            /\ via' = [via EXCEPT ![c] = "none"]
            /\ Reason' = [Reason EXCEPT ![c] = "NOT_PAUSED"]
            /\ EventDetails' = [EventDetails EXCEPT ![c] = NoEvent]
       ELSE /\ pc' = [pc EXCEPT ![c] = "e_lockself"]
            /\ UNCHANGED <<DebuggerHandleBreakpointLock, via, args>>
    /\ UNCHANGED <<Lock, CurrentOperatingCore, perCore, nmiPending,
                   DebuggerResponseLock, halt, g_IgnoreBreaksToDebugger, idx,
                   sendLocals, NewCore>>
    /\ UNCHANGED <<serial, nmi>>

(* Lock the current core, publish the halt reason, context and tag, and     *)
(* decide whether the other cores are notified.                             *)
EntryLockAndPublish(c) ==
    /\ pc[c] = "e_lockself"
    /\ ~Lock[c]
    /\ Lock' = [Lock EXCEPT ![c] = TRUE]
    /\ g_DebuggeeHaltReason' = Reason[c]
    /\ g_DebuggeeHaltTag' =
          IF EventDetails[c] # NoEvent THEN EventDetails[c] ELSE g_DebuggeeHaltTag
    /\ Reason' = [Reason EXCEPT ![c] = "NOT_PAUSED"]
    /\ IF DoNotNmiNotifyOtherCoresByThisCore[c] = FALSE
       THEN /\ pc' = [pc EXCEPT ![c] = "e_nmi_lock"]
            /\ UNCHANGED DoNotNmiNotifyOtherCoresByThisCore
       ELSE /\ DoNotNmiNotifyOtherCoresByThisCore' =
                  [DoNotNmiNotifyOtherCoresByThisCore EXCEPT ![c] = FALSE]
            /\ pc' = [pc EXCEPT ![c] = "m_main"]
    /\ UNCHANGED <<via, CurrentOperatingCore, EnableInterruptFlagOnContinue,
                   WaitForStepOnMtf, GuestIF, nmiPending, DebuggerHandleBreakpointLock,
                   DebuggerResponseLock, g_IgnoreBreaksToDebugger, EventDetails, idx,
                   sendLocals, NewCore>>
    /\ UNCHANGED <<serial, nmi>>

(* SpinlockLock(&DebuggerResponseLock) before the NMI broadcast *)
EntryNmiLock(c) ==
    /\ pc[c] = "e_nmi_lock"
    /\ ~DebuggerResponseLock
    /\ DebuggerResponseLock' = TRUE
    /\ pc' = [pc EXCEPT ![c] = "e_nmi_send"]
    /\ UNCHANGED <<via, Lock, CurrentOperatingCore, perCore, nmiPending,
                   DebuggerHandleBreakpointLock, halt, g_IgnoreBreaksToDebugger, args,
                   idx, sendLocals, NewCore>>
    /\ UNCHANGED <<serial, nmi>>

(***************************************************************************)
(* KdNmiCallback                                                           *)
(***************************************************************************)

(* The code that receives a halt NMI outside the guest marks the core as    *)
(* waiting for the NMI callback.                                            *)
ExpectNmi(c) ==
    /\ nmiPending[c]
    /\ ~WaitingForNmi[c]
    /\ nmiPending' = [nmiPending EXCEPT ![c] = FALSE]
    /\ WaitingForNmi' = [WaitingForNmi EXCEPT ![c] = TRUE]
    /\ UNCHANGED <<pc, via, Lock, CurrentOperatingCore, perCore,
                   DebuggerHandleBreakpointLock, DebuggerResponseLock, halt,
                   g_IgnoreBreaksToDebugger, args, idx, sendLocals, NewCore>>
    /\ UNCHANGED <<serial, NmiCall>>

(* The body of KdNmiCallback(Context, Handled) on core c, up to the call of *)
(* KdHandleNmi or to the return of Handled; the call remembers the position *)
(* the NMI interrupted.                                                     *)
KdNmiCallbackBody(c, Handled) ==
    /\ NmiCall[c] = NoCall
    /\ IF ~WaitingForNmi[c]
       THEN /\ NmiCall' = [NmiCall EXCEPT ![c] =
                              [NoCall EXCEPT !.Status = "returned",
                                              !.Handled = Handled,
                                              !.Returned = Handled]]
            /\ UNCHANGED <<kd, WaitingForNmi>>
       ELSE /\ WaitingForNmi' = [WaitingForNmi EXCEPT ![c] = FALSE]
            /\ NmiCall' = [NmiCall EXCEPT ![c] =
                              [Status |-> "running", Handled |-> Handled,
                               Returned |-> FALSE, At |-> pc[c],
                               Via |-> via[c]]]
            /\ pc' = [pc EXCEPT ![c] = "n_lock"]
            /\ via' = [via EXCEPT ![c] = "callback"]
            /\ EventDetails' = [EventDetails EXCEPT ![c] = NoEvent]
            /\ UNCHANGED <<Lock, CurrentOperatingCore, perCore, nmiPending,
                           DebuggerHandleBreakpointLock, DebuggerResponseLock, halt,
                           g_IgnoreBreaksToDebugger, Reason, idx, sendLocals,
                           NewCore>>
    /\ UNCHANGED serial

(* Variant: the callback claims every NMI. *)
KdNmiCallback_Swallows(c, Handled) ==
    /\ pc[c] = "run"
    /\ NmiCall[c] = NoCall
    /\ IF ~WaitingForNmi[c]
       THEN /\ NmiCall' = [NmiCall EXCEPT ![c] =
                              [NoCall EXCEPT !.Status = "returned",
                                              !.Handled = Handled,
                                              !.Returned = TRUE]]
            /\ UNCHANGED <<kd, WaitingForNmi>>
       ELSE /\ WaitingForNmi' = [WaitingForNmi EXCEPT ![c] = FALSE]
            /\ NmiCall' = [NmiCall EXCEPT ![c] =
                              [Status |-> "running", Handled |-> Handled,
                               Returned |-> FALSE, At |-> pc[c],
                               Via |-> via[c]]]
            /\ pc' = [pc EXCEPT ![c] = "n_lock"]
            /\ via' = [via EXCEPT ![c] = "callback"]
            /\ EventDetails' = [EventDetails EXCEPT ![c] = NoEvent]
            /\ UNCHANGED <<Lock, CurrentOperatingCore, perCore, nmiPending,
                           DebuggerHandleBreakpointLock, DebuggerResponseLock, halt,
                           g_IgnoreBreaksToDebugger, Reason, idx, sendLocals,
                           NewCore>>
    /\ UNCHANGED serial

(* KdNmiCallback(Context, Handled) on core c, outside the debugger's code. *)
KdNmiCallback(c, Handled) ==
    /\ pc[c] = "run"
    /\ KdNmiCallbackBody(c, Handled)

(* KdNmiCallback(Context, Handled) on core c when the NMI arrives while the *)
(* core is inside KdLoggingResponsePacketToDebugger, between SpinlockLock   *)
(* and SpinlockUnlock of DebuggerResponseLock.                              *)
KdNmiCallbackWhileLogging(c, Handled) ==
    /\ pc[c] = "l_send"
    /\ KdNmiCallbackBody(c, Handled)

(* KdHandleNmi has returned: return TRUE *)
KdNmiCallbackReturn(c) ==
    /\ pc[c] = "k_return"
    /\ NmiCall' = [NmiCall EXCEPT ![c].Status = "returned", ![c].Returned = TRUE]
    /\ pc' = [pc EXCEPT ![c] = NmiCall[c].At]
    /\ via' = [via EXCEPT ![c] = NmiCall[c].Via]
    /\ UNCHANGED <<Lock, CurrentOperatingCore, perCore, nmiPending,
                   DebuggerHandleBreakpointLock, DebuggerResponseLock, halt,
                   g_IgnoreBreaksToDebugger, args, idx, sendLocals, NewCore>>
    /\ UNCHANGED <<serial, WaitingForNmi>>

(* ApicTriggerGenericNmi(source): an NMI to every core but the source. *)
ApicTriggerGenericNmi(source) ==
    [c \in Cores |-> IF c = source THEN nmiPending[c] ELSE TRUE]

(* ApicTriggerGenericNmi(CurrentProcessorIndex); SpinlockUnlock(&DebuggerResponseLock) *)
EntryNmiSend(c) ==
    /\ pc[c] = "e_nmi_send"
    /\ nmiPending' = ApicTriggerGenericNmi(c)
    /\ DebuggerResponseLock' = FALSE
    /\ pc' = [pc EXCEPT ![c] = "m_main"]
    /\ UNCHANGED <<via, Lock, CurrentOperatingCore, perCore,
                   DebuggerHandleBreakpointLock, halt, g_IgnoreBreaksToDebugger, args,
                   idx, sendLocals, NewCore>>
    /\ UNCHANGED <<serial, nmi>>

(* Variant: the halt reason and tag are left as they are on return. *)
EntryClearAndUnlock_KeepsContext(c) ==
    /\ pc[c] = "e_clear"
    /\ UNCHANGED halt
    /\ DebuggerHandleBreakpointLock' = FALSE
    /\ pc' = [pc EXCEPT ![c] = "run"]
    /\ via' = [via EXCEPT ![c] = "none"]
    /\ EventDetails' = [EventDetails EXCEPT ![c] = NoEvent]
    /\ UNCHANGED <<Lock, CurrentOperatingCore, perCore, nmiPending,
                   DebuggerResponseLock, g_IgnoreBreaksToDebugger, Reason, idx,
                   sendLocals, NewCore>>
    /\ UNCHANGED <<serial, nmi>>

(* Back from the coordinator: clear the halt context, release the           *)
(* breakpoint lock, resume the guest.                                       *)
EntryClearAndUnlock(c) ==
    /\ pc[c] = "e_clear"
    /\ g_DebuggeeHaltReason' = "NOT_PAUSED"
    /\ g_DebuggeeHaltTag' = NoEvent
    /\ DebuggerHandleBreakpointLock' = FALSE
    /\ pc' = [pc EXCEPT ![c] = "run"]
    /\ via' = [via EXCEPT ![c] = "none"]
    /\ EventDetails' = [EventDetails EXCEPT ![c] = NoEvent]
    /\ UNCHANGED <<Lock, CurrentOperatingCore, perCore, nmiPending,
                   DebuggerResponseLock, g_IgnoreBreaksToDebugger, Reason, idx,
                   sendLocals, NewCore>>
    /\ UNCHANGED <<serial, nmi>>

(***************************************************************************)
(* KdHandleNmi                                                             *)
(***************************************************************************)

(* SpinlockLock(&Lock) and the call of the coordinator with MainCore = FALSE *)
KdHandleNmi(c) ==
    /\ pc[c] = "n_lock"
    /\ ~Lock[c]
    /\ Lock' = [Lock EXCEPT ![c] = TRUE]
    /\ pc' = [pc EXCEPT ![c] = "m_park"]
    /\ UNCHANGED <<via, CurrentOperatingCore, perCore, nmiPending,
                   DebuggerHandleBreakpointLock, DebuggerResponseLock, halt,
                   g_IgnoreBreaksToDebugger, args, idx, sendLocals, NewCore>>
    /\ UNCHANGED <<serial, nmi>>

(***************************************************************************)
(* KdResponsePacketToDebugger / KdLoggingResponsePacketToDebugger           *)
(***************************************************************************)

(* Variant: KdResponsePacketToDebugger does not wait for the response lock. *)
ResponseLock_NoWait(c) ==
    /\ pc[c] = "s_lock"
    /\ DebuggerResponseLock' = TRUE
    /\ pc' = [pc EXCEPT ![c] = "s_send"]
    /\ UNCHANGED <<via, Lock, CurrentOperatingCore, perCore, nmiPending,
                   DebuggerHandleBreakpointLock, halt, g_IgnoreBreaksToDebugger, args,
                   idx, sendLocals, NewCore>>
    /\ UNCHANGED <<serial, nmi>>

(* SpinlockLock(&DebuggerResponseLock) *)
ResponseLock(c) ==
    /\ pc[c] = "s_lock"
    /\ ~DebuggerResponseLock
    /\ DebuggerResponseLock' = TRUE
    /\ pc' = [pc EXCEPT ![c] = "s_send"]
    /\ UNCHANGED <<via, Lock, CurrentOperatingCore, perCore, nmiPending,
                   DebuggerHandleBreakpointLock, halt, g_IgnoreBreaksToDebugger, args,
                   idx, sendLocals, NewCore>>
    /\ UNCHANGED <<serial, nmi>>

(* SerialConnectionSend...(); SpinlockUnlock(&DebuggerResponseLock) *)
ResponseSend(c) ==
    /\ pc[c] = "s_send"
    /\ DebuggerResponseLock' = FALSE
    /\ pc' = [pc EXCEPT ![c] = "s_ignore"]
    /\ UNCHANGED <<via, Lock, CurrentOperatingCore, perCore, nmiPending,
                   DebuggerHandleBreakpointLock, halt, g_IgnoreBreaksToDebugger, args,
                   idx, sendLocals, NewCore>>
    /\ UNCHANGED <<serial, nmi>>

(* Variant: any response clears a pending suppression request. *)
IgnoreAfterResponse_AnyAction(ignore, Response) ==
    IF ignore.flag THEN IgnoreZero ELSE ignore

(* The suppression request after a packet with action Response was sent. *)
IgnoreAfterResponse(ignore, Response) ==
    IF ignore.flag /\ ignore.action = Response THEN IgnoreZero ELSE ignore

(* The test of g_IgnoreBreaksToDebugger that ends KdResponsePacketToDebugger *)
ResponseCheckIgnore(c) ==
    /\ pc[c] = "s_ignore"
    /\ g_IgnoreBreaksToDebugger' =
          IgnoreAfterResponse(g_IgnoreBreaksToDebugger, Packet[c].act)
    /\ pc' = [pc EXCEPT ![c] = after[c]]
    /\ Packet' = [Packet EXCEPT ![c] = NoPkt]
    /\ after' = [after EXCEPT ![c] = "run"]
    /\ UNCHANGED <<via, Lock, CurrentOperatingCore, perCore, nmiPending,
                   DebuggerHandleBreakpointLock, DebuggerResponseLock, halt, args, idx,
                   NewCore>>
    /\ UNCHANGED <<serial, nmi>>

(* A response sent for user mode by a core that is not halted (the reply to *)
(* a register-event, add-action or clear-events request, or any other).     *)
UserResponse(c) ==
    /\ pc[c] = "run"
    /\ ~WaitForStepOnMtf[c]
    /\ \E act \in UserResponses :
          Packet' = [Packet EXCEPT ![c] = [NoPkt EXCEPT !.act = act, !.res = "OK"]]
    /\ after' = [after EXCEPT ![c] = "run"]
    /\ pc' = [pc EXCEPT ![c] = "s_lock"]
    /\ UNCHANGED <<via, Lock, CurrentOperatingCore, perCore, nmiPending,
                   DebuggerHandleBreakpointLock, DebuggerResponseLock, halt,
                   g_IgnoreBreaksToDebugger, args, idx, NewCore>>
    /\ UNCHANGED <<serial, nmi>>

(* KdLoggingResponsePacketToDebugger: lock the response lock *)
LoggingLock(c) ==
    /\ pc[c] = "run"
    /\ ~WaitForStepOnMtf[c]
    /\ ~DebuggerResponseLock
    /\ DebuggerResponseLock' = TRUE
    /\ pc' = [pc EXCEPT ![c] = "l_send"]
    /\ UNCHANGED <<via, Lock, CurrentOperatingCore, perCore, nmiPending,
                   DebuggerHandleBreakpointLock, halt, g_IgnoreBreaksToDebugger, args,
                   idx, sendLocals, NewCore>>
    /\ UNCHANGED <<serial, nmi>>

(* KdLoggingResponsePacketToDebugger: send the three buffers, unlock, return *)
LoggingSend(c) ==
    /\ pc[c] = "l_send"
    /\ DebuggerResponseLock' = FALSE
    /\ pc' = [pc EXCEPT ![c] = "run"]
    /\ UNCHANGED <<via, Lock, CurrentOperatingCore, perCore, nmiPending,
                   DebuggerHandleBreakpointLock, halt, g_IgnoreBreaksToDebugger, args,
                   idx, sendLocals, NewCore>>
    /\ UNCHANGED <<serial, nmi>>

(***************************************************************************)
(* KdManageSystemHaltOnVmxRoot                                             *)
(***************************************************************************)

(* Variant: the pause packet never carries an event tag. *)
PausePacket_NoTag(c) ==
    [act |-> "PAUSED", core |-> c, reason |-> g_DebuggeeHaltReason,
     tag |-> NoEvent, res |-> "NONE", OptionalBuffer |-> NoBuffer]

(* The pause packet built by the operating core. *)
PausePacket(c) ==
    [act |-> "PAUSED", core |-> c, reason |-> g_DebuggeeHaltReason,
     tag |-> EventDetails[c], res |-> "NONE", OptionalBuffer |-> NoBuffer]

(* MainCore: mark the core operating, build the pause packet, send it. *)
ManageMain(c) ==
    /\ pc[c] = "m_main"
    /\ CurrentOperatingCore' = [CurrentOperatingCore EXCEPT ![c] = TRUE]
    /\ Packet' = [Packet EXCEPT ![c] = PausePacket(c)]
    /\ after' = [after EXCEPT ![c] = "d_recv"]
    /\ pc' = [pc EXCEPT ![c] = "s_lock"]
    /\ UNCHANGED <<via, Lock, perCore, nmiPending, DebuggerHandleBreakpointLock,
                   DebuggerResponseLock, halt, g_IgnoreBreaksToDebugger, args, idx,
                   NewCore>>
    /\ UNCHANGED <<serial, nmi>>

(* The return of the coordinator to its caller. *)
ManageReturn(c) ==
    /\ pc' = [pc EXCEPT ![c] = CASE via[c] = "trap" -> "e_clear"
                                  [] via[c] = "callback" -> "k_return"
                                  [] OTHER -> "run"]
    /\ via' = [via EXCEPT ![c] = IF via[c] = "trap" THEN "trap" ELSE "none"]

(* After the dispatcher returned (its receive buffer is gone): park if the  *)
(* operating core changed, otherwise unset the operating core and return.   *)
ManageAfterDispatch(c) ==
    /\ pc[c] = "m_after"
    /\ IF ~CurrentOperatingCore[c]
       THEN /\ pc' = [pc EXCEPT ![c] = "m_park"]
            /\ UNCHANGED <<via, CurrentOperatingCore>>
       ELSE /\ CurrentOperatingCore' = [CurrentOperatingCore EXCEPT ![c] = FALSE]
            /\ ManageReturn(c)
    /\ UNCHANGED <<Lock, perCore, nmiPending, DebuggerHandleBreakpointLock,
                   DebuggerResponseLock, halt, g_IgnoreBreaksToDebugger, args, idx,
                   sendLocals, NewCore>>
    /\ RecvBuffer' = [RecvBuffer EXCEPT ![c] = NoReceived]
    /\ Diag' = {}
    /\ UNCHANGED <<Wire, Sent, Received, nmi>>

(* Not MainCore: SpinlockLock(&Lock), the parking point. *)
ManagePark(c) ==
    /\ pc[c] = "m_park"
    /\ ~Lock[c]
    /\ Lock' = [Lock EXCEPT ![c] = TRUE]
    /\ pc' = [pc EXCEPT ![c] = "m_check"]
    /\ UNCHANGED <<via, CurrentOperatingCore, perCore, nmiPending,
                   DebuggerHandleBreakpointLock, DebuggerResponseLock, halt,
                   g_IgnoreBreaksToDebugger, args, idx, sendLocals, NewCore>>
    /\ UNCHANGED <<serial, nmi>>

(* Variant: the core that takes over leaves the halt reason as it is. *)
ManageCheck_KeepsReason(c) ==
    /\ pc[c] = "m_check"
    /\ IF CurrentOperatingCore[c]
       THEN /\ pc' = [pc EXCEPT ![c] = "m_main"]
            /\ UNCHANGED <<via, Lock>>
       ELSE /\ Lock' = [Lock EXCEPT ![c] = FALSE]
            /\ ManageReturn(c)
    /\ UNCHANGED <<CurrentOperatingCore, perCore, nmiPending,
                   DebuggerHandleBreakpointLock, DebuggerResponseLock,
                   halt, g_IgnoreBreaksToDebugger, args, idx, sendLocals,
                   NewCore>>
    /\ UNCHANGED <<serial, nmi>>

(* Lock granted: take over as operating core after a core change,          *)
(* otherwise unlock and return.                                             *)
ManageCheck(c) ==
    /\ pc[c] = "m_check"
    /\ IF CurrentOperatingCore[c]
       THEN /\ g_DebuggeeHaltReason' = "CORE_SWITCHED"
            /\ pc' = [pc EXCEPT ![c] = "m_main"]
            /\ UNCHANGED <<via, Lock>>
       ELSE /\ Lock' = [Lock EXCEPT ![c] = FALSE]
            /\ ManageReturn(c)
            /\ UNCHANGED g_DebuggeeHaltReason
    /\ UNCHANGED <<CurrentOperatingCore, perCore, nmiPending,
                   DebuggerHandleBreakpointLock, DebuggerResponseLock,
                   g_DebuggeeHaltTag, g_IgnoreBreaksToDebugger, args, idx, sendLocals,
                   NewCore>>
    /\ UNCHANGED <<serial, nmi>>

(***************************************************************************)
(* KdDispatchAndPerformCommandsFromDebugger and the routines it calls       *)
(***************************************************************************)

(* Variant: RFLAGS.IF is set whether or not the mark is set. *)
RestoreInterruptFlag_Always(c) ==
    /\ GuestIF' = [GuestIF EXCEPT ![c] = TRUE]
    /\ EnableInterruptFlagOnContinue' =
          [EnableInterruptFlagOnContinue EXCEPT ![c] = FALSE]

(* The check of EnableInterruptFlagOnContinue shared by KdContinueDebuggee  *)
(* and KdSwitchCore: set RFLAGS.IF of the current core and clear the mark.  *)
RestoreInterruptFlag(c) ==
    IF EnableInterruptFlagOnContinue[c]
    THEN /\ GuestIF' = [GuestIF EXCEPT ![c] = TRUE]
         /\ EnableInterruptFlagOnContinue' =
               [EnableInterruptFlagOnContinue EXCEPT ![c] = FALSE]
    ELSE UNCHANGED <<GuestIF, EnableInterruptFlagOnContinue>>

(* Variant: the first lock is released in the step that records the     *)
(* suppression request.                                                  *)
KdContinueDebuggee_UnlockFirst(c, PauseBreaksUntilASpecialMessageSent, SpeialEventResponse) ==
    /\ g_IgnoreBreaksToDebugger' =
          IF PauseBreaksUntilASpecialMessageSent
          THEN [flag |-> TRUE, action |-> SpeialEventResponse]
          ELSE g_IgnoreBreaksToDebugger
    /\ RestoreInterruptFlag(c)
    /\ Lock' = [Lock EXCEPT ![0] = FALSE]
    /\ idx' = [idx EXCEPT ![c] = 0]
    /\ pc' = [pc EXCEPT ![c] = "c_unlock"]
    /\ UNCHANGED <<via, CurrentOperatingCore,
                   DoNotNmiNotifyOtherCoresByThisCore, WaitForStepOnMtf, nmiPending,
                   DebuggerHandleBreakpointLock, DebuggerResponseLock, halt, args,
                   sendLocals, NewCore>>

(* KdContinueDebuggee up to its unlock loop: record the suppression request *)
(* and restore the interrupt flag.                                          *)
KdContinueDebuggee(c, PauseBreaksUntilASpecialMessageSent, SpeialEventResponse) ==
    /\ g_IgnoreBreaksToDebugger' =
          IF PauseBreaksUntilASpecialMessageSent
          THEN [flag |-> TRUE, action |-> SpeialEventResponse]
          ELSE g_IgnoreBreaksToDebugger
    /\ RestoreInterruptFlag(c)
    /\ idx' = [idx EXCEPT ![c] = 0]
    /\ pc' = [pc EXCEPT ![c] = "c_unlock"]
    /\ UNCHANGED <<via, Lock, CurrentOperatingCore,
                   DoNotNmiNotifyOtherCoresByThisCore, WaitForStepOnMtf, nmiPending,
                   DebuggerHandleBreakpointLock, DebuggerResponseLock, halt, args,
                   sendLocals, NewCore>>

(* One iteration of the unlock loop of KdContinueDebuggee; after the last   *)
(* one the dispatch loop is left.                                           *)
KdContinueUnlock(c) ==
    /\ pc[c] = "c_unlock"
    /\ Lock' = [Lock EXCEPT ![idx[c]] = FALSE]
    /\ IF idx[c] + 1 < CoreCount
       THEN /\ idx' = [idx EXCEPT ![c] = idx[c] + 1]
            /\ UNCHANGED pc
       ELSE /\ idx' = [idx EXCEPT ![c] = 0]
            /\ pc' = [pc EXCEPT ![c] = "m_after"]
    /\ UNCHANGED <<via, CurrentOperatingCore, perCore, nmiPending,
                   DebuggerHandleBreakpointLock, DebuggerResponseLock, halt,
                   g_IgnoreBreaksToDebugger, args, sendLocals, NewCore>>
    /\ UNCHANGED <<serial, nmi>>

(* Variant: the step releases the lock of every core. *)
KdStep_UnlocksAll(c) ==
    /\ WaitForStepOnMtf' = [WaitForStepOnMtf EXCEPT ![c] = TRUE]
    /\ IF ~EnableInterruptFlagOnContinue[c] /\ GuestIF[c]
       THEN /\ GuestIF' = [GuestIF EXCEPT ![c] = FALSE]
            /\ EnableInterruptFlagOnContinue' =
                  [EnableInterruptFlagOnContinue EXCEPT ![c] = TRUE]
       ELSE UNCHANGED <<GuestIF, EnableInterruptFlagOnContinue>>
    /\ DoNotNmiNotifyOtherCoresByThisCore' =
          [DoNotNmiNotifyOtherCoresByThisCore EXCEPT ![c] = TRUE]
    /\ Lock' = [d \in Cores |-> FALSE]
    /\ pc' = [pc EXCEPT ![c] = "m_after"]
    /\ UNCHANGED <<via, CurrentOperatingCore, nmiPending,
                   DebuggerHandleBreakpointLock, DebuggerResponseLock, halt,
                   g_IgnoreBreaksToDebugger, args, idx, sendLocals, NewCore>>

(* KdStepInstruction followed by KdContinueDebuggeeJustCurrentCore *)
KdStep(c) ==
    /\ WaitForStepOnMtf' = [WaitForStepOnMtf EXCEPT ![c] = TRUE]
    /\ IF ~EnableInterruptFlagOnContinue[c] /\ GuestIF[c]
       THEN /\ GuestIF' = [GuestIF EXCEPT ![c] = FALSE]
            /\ EnableInterruptFlagOnContinue' =
                  [EnableInterruptFlagOnContinue EXCEPT ![c] = TRUE]
       ELSE UNCHANGED <<GuestIF, EnableInterruptFlagOnContinue>>
    /\ DoNotNmiNotifyOtherCoresByThisCore' =
          [DoNotNmiNotifyOtherCoresByThisCore EXCEPT ![c] = TRUE]
    /\ Lock' = [Lock EXCEPT ![c] = FALSE]
    /\ pc' = [pc EXCEPT ![c] = "m_after"]
    /\ UNCHANGED <<via, CurrentOperatingCore, nmiPending,
                   DebuggerHandleBreakpointLock, DebuggerResponseLock, halt,
                   g_IgnoreBreaksToDebugger, args, idx, sendLocals, NewCore>>

(* Variant: the bound test is off by one. *)
KdSwitchCoreValid_OffByOne(target) == ~(target > CoreCount)

(* KdSwitchCore's validity test *)
KdSwitchCoreValid(target) == ~(target >= CoreCount)

(* The operating-core flags after KdSwitchCore(CurrentCore, target) *)
KdSwitchCoreFlags(CurrentCore, target) ==
    [[CurrentOperatingCore EXCEPT ![CurrentCore] = FALSE] EXCEPT ![target] = TRUE]

(* The reply of the dispatcher: KdResponsePacketToDebugger, then `next`. *)
Reply(c, act, core, res, next) ==
    /\ Packet' = [Packet EXCEPT ![c] = [NoPkt EXCEPT !.act = act, !.core = core,
                                                      !.res = res]]
    /\ after' = [after EXCEPT ![c] = next]
    /\ pc' = [pc EXCEPT ![c] = "s_lock"]

(* case ..._CHANGE_CORE, up to the call of KdResponsePacketToDebugger *)
KdChangeCore(c, target) ==
    /\ IF c # target
       THEN IF KdSwitchCoreValid(target)
            THEN /\ RestoreInterruptFlag(c)
                 /\ CurrentOperatingCore' = KdSwitchCoreFlags(c, target)
                 /\ NewCore' = [NewCore EXCEPT ![c] = target]
                 /\ Reply(c, "RES_CHANGE_CORE", target, "OK", "cc_unlock")
            ELSE /\ Reply(c, "RES_CHANGE_CORE", target, "INVALID_CORE", "d_recv")
                 /\ UNCHANGED <<GuestIF, EnableInterruptFlagOnContinue,
                                CurrentOperatingCore, NewCore>>
       ELSE /\ Reply(c, "RES_CHANGE_CORE", target, "OK", "d_recv")
            /\ UNCHANGED <<GuestIF, EnableInterruptFlagOnContinue,
                           CurrentOperatingCore, NewCore>>
    /\ UNCHANGED <<via, Lock, DoNotNmiNotifyOtherCoresByThisCore, WaitForStepOnMtf,
                   nmiPending, DebuggerHandleBreakpointLock, DebuggerResponseLock,
                   halt, g_IgnoreBreaksToDebugger, args, idx>>

(* Variant: the unlock after the reply is applied to the lock of the core   *)
(* that was operating before.                                               *)
KdChangeCoreUnlock_Previous(c) ==
    /\ pc[c] = "cc_unlock"
    /\ Lock' = [Lock EXCEPT ![c] = FALSE]
    /\ NewCore' = [NewCore EXCEPT ![c] = NoCore]
    /\ pc' = [pc EXCEPT ![c] = "m_after"]
    /\ UNCHANGED <<via, CurrentOperatingCore, perCore, nmiPending,
                   DebuggerHandleBreakpointLock, DebuggerResponseLock, halt,
                   g_IgnoreBreaksToDebugger, args, idx, sendLocals>>
    /\ UNCHANGED <<serial, nmi>>

(* if (UnlockTheNewCore) SpinlockUnlock(&g_GuestState[NewCore]...Lock); the *)
(* dispatch loop is left.                                                   *)
KdChangeCoreUnlock(c) ==
    /\ pc[c] = "cc_unlock"
    /\ Lock' = [Lock EXCEPT ![NewCore[c]] = FALSE]
    /\ NewCore' = [NewCore EXCEPT ![c] = NoCore]
    /\ pc' = [pc EXCEPT ![c] = "m_after"]
    /\ UNCHANGED <<via, CurrentOperatingCore, perCore, nmiPending,
                   DebuggerHandleBreakpointLock, DebuggerResponseLock, halt,
                   g_IgnoreBreaksToDebugger, args, idx, sendLocals>>
    /\ UNCHANGED <<serial, nmi>>

(* The commands that reply in place and stay in the loop. *)
ReplyOf(cmd) ==
    CASE cmd = "FLUSH" -> "RES_FLUSH"
      [] cmd = "READ_REGS" -> "RES_READ_REGS"
      [] cmd = "CHANGE_PROCESS" -> "RES_CHANGE_PROCESS"
      [] cmd = "RUN_SCRIPT" -> "RES_SCRIPT"
      [] cmd = "QUERY_MODIFY" -> "RES_QUERY_MODIFY"

(***************************************************************************)
(* KdReadRegisters                                                         *)
(***************************************************************************)

(* The general-purpose registers of GUEST_REGS, in the order of the cases   *)
(* of KdReadRegisters.                                                      *)
GeneralRegisters ==
    <<"rax", "rbx", "rcx", "rdx", "rsi", "rdi", "rbp", "rsp", "r8", "r9", "r10",
      "r11", "r12", "r13", "r14", "r15">>

(* The registers KdReadRegisters answers with 0. *)
OtherRegisters == <<"ds", "es", "fs", "gs", "cs", "ss", "eflags", "rip">>

RegisterNames == GeneralRegisters \o OtherRegisters

(* REGISTER_RAX .. REGISTER_RIP *)
REGISTER(name) == (CHOOSE i \in DOMAIN RegisterNames : RegisterNames[i] = name) - 1

DEBUGGEE_SHOW_ALL_REGISTERS == 255

(* sizeof(DEBUGGEE_REGISTER_READ_DESCRIPTION): RegisterID, Value, KernelStatus *)
SizeOfRegisterReadDescription == 3

(* sizeof(DEBUGGER_MODIFY_EVENTS): Tag, KernelStatus, TypeOfAction, IsEnabled *)
SizeOfModifyEvents == 4

(* sizeof(GUEST_REGS) *)
SizeOfGuestRegs == Len(GeneralRegisters)

(* The register snapshot of core c at its halt: every register of every     *)
(* core holds a different value.                                            *)
GuestRegs(c) ==
    [name \in {GeneralRegisters[i] : i \in DOMAIN GeneralRegisters} |->
        SizeOfGuestRegs * c
            + (CHOOSE i \in DOMAIN GeneralRegisters : GeneralRegisters[i] = name)]

(* KdReadRegisters(Regs, ReadRegisterRequest): the request after the call   *)
(* and the returned value.  The case of REGISTER_R11 has no break and runs  *)
(* into the case of REGISTER_R12.                                           *)
KdReadRegisters(Regs, ReadRegisterRequest) ==
    LET RegisterID == ReadRegisterRequest.RegisterID
        Value(v) == [Returned |-> TRUE,
                     Request |-> [ReadRegisterRequest EXCEPT !.Value = v]]
    IN  IF RegisterID = DEBUGGEE_SHOW_ALL_REGISTERS
        THEN [Returned |-> TRUE,
              Request |-> [ReadRegisterRequest EXCEPT !.Registers =
                              [i \in DOMAIN GeneralRegisters |->
                                  Regs[GeneralRegisters[i]]]]]
        ELSE IF RegisterID = REGISTER("r11")
        THEN LET AfterR11 == Value(Regs["r11"]).Request
             IN  [Returned |-> TRUE,
                  Request |-> [AfterR11 EXCEPT !.Value = Regs["r12"]]]
        ELSE IF RegisterID \in {REGISTER(GeneralRegisters[i]) :
                                    i \in DOMAIN GeneralRegisters}
        THEN Value(Regs[RegisterNames[RegisterID + 1]])
        ELSE IF RegisterID \in {REGISTER(OtherRegisters[i]) :
                                    i \in DOMAIN OtherRegisters}
        THEN Value(0)
        ELSE [Returned |-> FALSE, Request |-> ReadRegisterRequest]

(* The read-registers request in the received buffer. *)
ReadRegisterPacket(Buffer) ==
    [RegisterID |-> Buffer[SizeOfPacket], Value |-> Buffer[SizeOfPacket + 1],
     KernelStatus |-> Buffer[SizeOfPacket + 2], Registers |-> <<>>]

(* Variant: the reply to a read-registers command always has the size of    *)
(* the description.                                                         *)
KdReplyReadRegisters_HeaderOnly(c, Buffer) ==
    LET Read == KdReadRegisters(GuestRegs(c), ReadRegisterPacket(Buffer))
        KernelStatus == IF Read.Returned THEN "OK" ELSE "INVALID_REGISTER_NUMBER"
    IN  /\ Packet' = [Packet EXCEPT ![c] =
                         [NoPkt EXCEPT !.act = "RES_READ_REGS", !.res = "OK",
                                       !.OptionalBuffer =
                                           [Read.Request EXCEPT
                                               !.KernelStatus = KernelStatus]
                                           @@ [Length |-> SizeOfRegisterReadDescription]]]
        /\ after' = [after EXCEPT ![c] = "d_recv"]
        /\ pc' = [pc EXCEPT ![c] = "s_lock"]
        /\ UNCHANGED <<via, Lock, CurrentOperatingCore, perCore, nmiPending,
                       DebuggerHandleBreakpointLock, DebuggerResponseLock, halt,
                       g_IgnoreBreaksToDebugger, args, idx, NewCore>>

(* case ..._ON_VMX_ROOT_READ_REGISTERS of the dispatcher *)
KdReplyReadRegisters(c, Buffer) ==
    LET Read == KdReadRegisters(GuestRegs(c), ReadRegisterPacket(Buffer))
        KernelStatus == IF Read.Returned THEN "OK" ELSE "INVALID_REGISTER_NUMBER"
        SizeToSend ==
            IF Read.Request.RegisterID = DEBUGGEE_SHOW_ALL_REGISTERS
            THEN SizeOfRegisterReadDescription + SizeOfGuestRegs
            ELSE SizeOfRegisterReadDescription
    IN  /\ Packet' = [Packet EXCEPT ![c] =
                         [NoPkt EXCEPT !.act = "RES_READ_REGS", !.res = "OK",
                                       !.OptionalBuffer =
                                           [Read.Request EXCEPT
                                               !.KernelStatus = KernelStatus]
                                           @@ [Length |-> SizeToSend]]]
        /\ after' = [after EXCEPT ![c] = "d_recv"]
        /\ pc' = [pc EXCEPT ![c] = "s_lock"]
        /\ UNCHANGED <<via, Lock, CurrentOperatingCore, perCore, nmiPending,
                       DebuggerHandleBreakpointLock, DebuggerResponseLock, halt,
                       g_IgnoreBreaksToDebugger, args, idx, NewCore>>

(***************************************************************************)
(* KdPerformEventQueryAndModification                                      *)
(***************************************************************************)

(* The query-and-modify request in the received buffer. *)
QueryAndModifyEventPacket(Buffer) ==
    [TypeOfAction |-> Buffer[SizeOfPacket], Tag |-> Buffer[SizeOfPacket + 1],
     KernelStatus |-> "NONE", IsEnabled |-> FALSE]

(* KdPerformEventQueryAndModification(ModifyAndQueryEvent): the request     *)
(* after the call and whether it was handed to user mode with               *)
(* LogSendBuffer.  Enabled is the answer of DebuggerQueryStateEvent.        *)
KdPerformEventQueryAndModification(ModifyAndQueryEvent, Enabled) ==
    LET Status(s) == [Request |-> [ModifyAndQueryEvent EXCEPT !.KernelStatus = s],
                      Forwarded |-> FALSE]
        TypeOfAction == ModifyAndQueryEvent.TypeOfAction
    IN  IF /\ ModifyAndQueryEvent.Tag # DEBUGGER_MODIFY_EVENTS_APPLY_TO_ALL_TAG
           /\ ~DebuggerIsTagValid(ModifyAndQueryEvent.Tag)
        THEN Status("INVALID_TAG")
        ELSE IF TypeOfAction = DEBUGGER_MODIFY_EVENTS_QUERY_STATE
        THEN IF ~DebuggerIsTagValid(ModifyAndQueryEvent.Tag)
             THEN Status("TAG_NOT_EXISTS")
             ELSE [Request |-> [ModifyAndQueryEvent EXCEPT !.IsEnabled = Enabled,
                                                           !.KernelStatus = "OK"],
                   Forwarded |-> FALSE]
        ELSE IF TypeOfAction \in {DEBUGGER_MODIFY_EVENTS_ENABLE,
                                  DEBUGGER_MODIFY_EVENTS_DISABLE}
        THEN Status("OK")
        ELSE IF TypeOfAction = DEBUGGER_MODIFY_EVENTS_CLEAR
        THEN [Request |-> ModifyAndQueryEvent, Forwarded |-> TRUE]
        ELSE Status("INVALID_TYPE_OF_ACTION")

(* case ..._QUERY_AND_MODIFY_EVENT of the dispatcher when the type of       *)
(* action is not a clear: the request is sent back.                         *)
KdReplyQueryAndModify(c, Buffer) ==
    /\ \E Enabled \in BOOLEAN :
          Packet' = [Packet EXCEPT ![c] =
              [NoPkt EXCEPT !.act = "RES_QUERY_MODIFY", !.res = "OK",
                            !.OptionalBuffer =
                                KdPerformEventQueryAndModification(
                                    QueryAndModifyEventPacket(Buffer), Enabled).Request
                                @@ [Length |-> SizeOfModifyEvents]]]
    /\ after' = [after EXCEPT ![c] = "d_recv"]
    /\ pc' = [pc EXCEPT ![c] = "s_lock"]
    /\ UNCHANGED <<via, Lock, CurrentOperatingCore, perCore, nmiPending,
                   DebuggerHandleBreakpointLock, DebuggerResponseLock, halt,
                   g_IgnoreBreaksToDebugger, args, idx, NewCore>>

(***************************************************************************)
(* KdSwitchProcess                                                         *)
(***************************************************************************)

(* The process ids of the debuggee's processes. *)
Processes == {4}

(* PsGetCurrentProcessId() *)
CurrentProcessId == 4

(* A process id no process of the debuggee has. *)
InvalidProcessId == 9

(* sizeof(DEBUGGEE_CHANGE_PROCESS_PACKET): GetRemotePid, ProcessId, Result *)
SizeOfChangeProcessPacket == 3

(* The change-process request in the received buffer. *)
ChangeProcessPacket(Buffer) ==
    [GetRemotePid |-> Buffer[SizeOfPacket] # 0, ProcessId |-> Buffer[SizeOfPacket + 1],
     Result |-> "NONE"]

(* KdSwitchProcess(PidRequest): the request after the call and the returned *)
(* value.  A switch is queued as a DPC with KdFireDpc and is not awaited;   *)
(* both branches end in return TRUE.                                        *)
KdSwitchProcess(PidRequest) ==
    IF PidRequest.GetRemotePid
    THEN [Returned |-> TRUE,
          Request |-> [PidRequest EXCEPT !.ProcessId = CurrentProcessId]]
    ELSE [Returned |-> TRUE, Request |-> PidRequest]

(* case ..._ON_VMX_ROOT_MODE_CHANGE_PROCESS of the dispatcher *)
KdReplyChangeProcess(c, Buffer) ==
    LET Switch == KdSwitchProcess(ChangeProcessPacket(Buffer))
        Result == IF Switch.Returned
                  THEN "OK"
                  ELSE "UNABLE_TO_SWITCH_TO_NEW_PROCESS"
    IN  /\ Packet' = [Packet EXCEPT ![c] =
                         [NoPkt EXCEPT !.act = "RES_CHANGE_PROCESS", !.res = "OK",
                                       !.OptionalBuffer =
                                           [Switch.Request EXCEPT !.Result = Result]
                                           @@ [Length |-> SizeOfChangeProcessPacket]]]
        /\ after' = [after EXCEPT ![c] = "d_recv"]
        /\ pc' = [pc EXCEPT ![c] = "s_lock"]
        /\ UNCHANGED <<via, Lock, CurrentOperatingCore, perCore, nmiPending,
                       DebuggerHandleBreakpointLock, DebuggerResponseLock, halt,
                       g_IgnoreBreaksToDebugger, args, idx, NewCore>>

KdReplyInPlace_Escapes(c, cmd) ==
    /\ Reply(c, ReplyOf(cmd), NoCore, "OK", "m_after")
    /\ UNCHANGED <<via, Lock, CurrentOperatingCore, perCore, nmiPending,
                   DebuggerHandleBreakpointLock, DebuggerResponseLock, halt,
                   g_IgnoreBreaksToDebugger, args, idx, NewCore>>

KdReplyInPlace(c, cmd) ==
    /\ Reply(c, ReplyOf(cmd), NoCore, "OK", "d_recv")
    /\ UNCHANGED <<via, Lock, CurrentOperatingCore, perCore, nmiPending,
                   DebuggerHandleBreakpointLock, DebuggerResponseLock, halt,
                   g_IgnoreBreaksToDebugger, args, idx, NewCore>>

(* The switch on RequestedActionOfThePacket. *)
KdSwitch(c, cmd, Buffer) ==
    CASE cmd \in {"CONTINUE", "CLOSE_AND_UNLOAD", "USER_INPUT"} ->
            KdContinueDebuggee(c, FALSE, "NO_ACTION")
      [] cmd = "REGISTER_EVENT" -> KdContinueDebuggee(c, TRUE, "RES_REG_EVENT")
      [] cmd = "ADD_ACTION" -> KdContinueDebuggee(c, TRUE, "RES_ADD_ACTION")
      [] cmd = "CLEAR_EVENTS" -> KdContinueDebuggee(c, TRUE, "RES_QUERY_MODIFY")
      [] cmd = "STEP" -> KdStep(c)
      [] cmd = "CHANGE_CORE" -> KdChangeCore(c, Buffer[SizeOfPacket])
      [] cmd = "READ_REGS" -> KdReplyReadRegisters(c, Buffer)
      [] cmd = "QUERY_MODIFY" -> KdReplyQueryAndModify(c, Buffer)
      [] cmd = "CHANGE_PROCESS" -> KdReplyChangeProcess(c, Buffer)
      [] cmd \in {"FLUSH", "RUN_SCRIPT"} -> KdReplyInPlace(c, cmd)
      [] OTHER -> UNCHANGED kd

(* A packet of the debugger as the transport carries it. *)
DebuggerPacket(PacketType, cmd, payload) ==
    SerialConnectionSend(KdResponsePacket(PacketType, ActionCode(cmd), payload))

(* The frames the debugger sends while the debuggee is halted: one packet   *)
(* for every action, and the malformed ones.                                *)
GoodFrames ==
    {DebuggerPacket(DEBUGGER_TO_DEBUGGEE_EXECUTE_ON_VMX_ROOT, cmd, <<>>) :
        cmd \in Commands \ {"CHANGE_CORE", "QUERY_MODIFY", "CLEAR_EVENTS"}}
    \cup {DebuggerPacket(DEBUGGER_TO_DEBUGGEE_EXECUTE_ON_VMX_ROOT, "CHANGE_CORE",
                         <<target>>) : target \in CoreIds}
    \cup {DebuggerPacket(DEBUGGER_TO_DEBUGGEE_EXECUTE_ON_VMX_ROOT, "QUERY_MODIFY",
                         <<TypeOfAction>>) :
              TypeOfAction \in {DEBUGGER_MODIFY_EVENTS_QUERY_STATE,
                                DEBUGGER_MODIFY_EVENTS_CLEAR}}

(* A packet whose checksum field is off by one. *)
WrongChecksumFrame ==
    LET p == KdResponsePacket(DEBUGGER_TO_DEBUGGEE_EXECUTE_ON_VMX_ROOT,
                              ActionCode("CONTINUE"), <<>>)
    IN  SerialConnectionSend([p EXCEPT ![1] = (p[1] + 1) % 256])

(* A frame that does not start with the indicator. *)
WrongIndicatorFrame ==
    SerialConnectionSend(<<OtherByte, OtherByte, OtherByte, OtherByte>>)

(* A well-formed packet of the type the debuggee sends. *)
WrongTypeFrame == DebuggerPacket(DEBUGGEE_TO_DEBUGGER, "CONTINUE", <<>>)

(* A packet too long for the receive buffer. *)
OversizedFrame ==
    DebuggerPacket(DEBUGGER_TO_DEBUGGEE_EXECUTE_ON_VMX_ROOT, "RUN_SCRIPT",
                   [i \in 1 .. (MaxSerialPacketSize - SizeOfPacket + 1) |-> OtherByte])

MalformedFrames ==
    {WrongChecksumFrame, WrongIndicatorFrame, WrongTypeFrame, OversizedFrame}

(* LogError, DbgBreakPoint and LogSendBuffer of one iteration of the        *)
(* dispatch loop.                                                           *)
Diagnostics(r) ==
    LET v == Verdict(r)
        cmd == CommandOf(r.Buffer[OffsetOfRequestedAction], r.Buffer[SizeOfPacket])
    IN  (IF v = "none" THEN {} ELSE {v})
            \cup (IF v \in {"none", "type"} /\ cmd = "UNKNOWN" THEN {"action"} ELSE {})
            \cup (IF /\ v \in {"none", "type"}
                     /\ cmd = "CLEAR_EVENTS"
                     /\ KdPerformEventQueryAndModification(
                            QueryAndModifyEventPacket(r.Buffer), FALSE).Forwarded
                  THEN {"OPERATION_DEBUGGEE_CLEAR_EVENTS"}
                  ELSE {})

(* One iteration of the dispatch loop: KdRecvBuffer on the bytes the        *)
(* transport holds (frame is what the debugger sends when the transport     *)
(* holds no complete buffer), the tests of the indicator, of the checksum   *)
(* and of the packet type, and the switch.  Bytes left behind by            *)
(* KdRecvBuffer stay in the transport for the next call.                    *)
KdDispatchFrom(c, Frames) ==
    /\ pc[c] = "d_recv"
    /\ \E Pending \in {KdRecvBuffer(Wire)}, frame \in Frames \cup {<<>>} :
          /\ (frame = <<>>) <=> (Pending.Status # "polling")
          /\ \E r \in {IF Pending.Status = "polling"
                        THEN KdRecvBuffer(Wire \o frame)
                        ELSE Pending} :
                /\ RecvBuffer' = [RecvBuffer EXCEPT ![c] = r]
                /\ Wire' = r.Rest
                /\ Diag' = Diagnostics(r)
                /\ IF Verdict(r) \in {"none", "type"}
                   THEN KdSwitch(c, CommandOf(r.Buffer[OffsetOfRequestedAction],
                                              r.Buffer[SizeOfPacket]),
                                 r.Buffer)
                   ELSE UNCHANGED kd
    /\ UNCHANGED <<Sent, Received, nmi>>

(* The debugger sends a well-formed packet. *)
KdDispatch(c) == KdDispatchFrom(c, GoodFrames)

(* The transport delivers a malformed frame, or what a malformed frame left *)
(* behind.                                                                  *)
KdDispatchMalformed(c) == KdDispatchFrom(c, MalformedFrames)

(***************************************************************************)
(* The system                                                              *)
(***************************************************************************)

Next ==
    \E c \in Cores :
        \/ Trap(c)
        \/ MtfTrap(c)
        \/ NmiVmexit(c)
        \/ EntryLockBreakpoint(c)
        \/ EntryCheckIgnore(c)
        \/ EntryLockAndPublish(c)
        \/ EntryNmiLock(c)
        \/ EntryNmiSend(c)
        \/ EntryClearAndUnlock(c)
        \/ KdHandleNmi(c)
        \/ ResponseLock(c)
        \/ ResponseSend(c)
        \/ ResponseCheckIgnore(c)
        \/ UserResponse(c)
        \/ LoggingLock(c)
        \/ LoggingSend(c)
        \/ ManageMain(c)
        \/ ManageAfterDispatch(c)
        \/ ManagePark(c)
        \/ ManageCheck(c)
        \/ KdContinueUnlock(c)
        \/ KdChangeCoreUnlock(c)
        \/ KdDispatch(c)

Spec == Init /\ [][Next]_vars

(* The kernel's NMI dispatch takes the value the callback returned. *)
NmiCallbackReturned(c) ==
    /\ NmiCall[c].Status = "returned"
    /\ NmiCall' = [NmiCall EXCEPT ![c] = NoCall]
    /\ UNCHANGED <<kd, serial, WaitingForNmi>>

(* The packet the debugger sends in NmiSpec: continue. *)
NmiFrames ==
    {DebuggerPacket(DEBUGGER_TO_DEBUGGEE_EXECUTE_ON_VMX_ROOT, "CONTINUE", <<>>)}

(* The halting and releasing of cores when halt NMIs are also delivered     *)
(* through the NMI callback and unrelated NMIs arrive.                      *)
NmiNext ==
    \E c \in Cores :
        \/ Trap(c)
        \/ NmiVmexit(c)
        \/ ExpectNmi(c)
        \/ \E Handled \in BOOLEAN : KdNmiCallback(c, Handled)
        \/ KdNmiCallbackReturn(c)
        \/ NmiCallbackReturned(c)
        \/ EntryLockBreakpoint(c)
        \/ EntryCheckIgnore(c)
        \/ EntryLockAndPublish(c)
        \/ EntryNmiLock(c)
        \/ EntryNmiSend(c)
        \/ EntryClearAndUnlock(c)
        \/ KdHandleNmi(c)
        \/ ResponseLock(c)
        \/ ResponseSend(c)
        \/ ResponseCheckIgnore(c)
        \/ ManageMain(c)
        \/ ManageAfterDispatch(c)
        \/ ManagePark(c)
        \/ ManageCheck(c)
        \/ KdContinueUnlock(c)
        \/ KdDispatchFrom(c, NmiFrames)

NmiSpec == Init /\ [][NmiNext]_vars

(* A register id no case of KdReadRegisters names. *)
InvalidRegisterId == Len(RegisterNames)

(* The read-registers requests of the debugger, one for every register id. *)
ReadRegisterFrames ==
    {DebuggerPacket(DEBUGGER_TO_DEBUGGEE_EXECUTE_ON_VMX_ROOT, "READ_REGS",
                    <<RegisterID>>) :
        RegisterID \in (0 .. InvalidRegisterId) \cup {DEBUGGEE_SHOW_ALL_REGISTERS}}

(* The query-and-modify requests of the debugger: every type of action, and *)
(* one that is none, on a registered tag, on all tags and on a tag that is  *)
(* not registered.                                                          *)
QueryAndModifyFrames ==
    {DebuggerPacket(DEBUGGER_TO_DEBUGGEE_EXECUTE_ON_VMX_ROOT, "QUERY_MODIFY",
                    <<TypeOfAction, Tag>>) :
        TypeOfAction \in {DEBUGGER_MODIFY_EVENTS_QUERY_STATE,
                          DEBUGGER_MODIFY_EVENTS_ENABLE,
                          DEBUGGER_MODIFY_EVENTS_DISABLE,
                          DEBUGGER_MODIFY_EVENTS_CLEAR, InvalidTypeOfAction},
        Tag \in Tags \cup {DEBUGGER_MODIFY_EVENTS_APPLY_TO_ALL_TAG, InvalidTag}}

(* The change-process requests of the debugger: the query of the current   *)
(* process id and the switch, to a process of the debuggee and to a process *)
(* id nothing has.                                                          *)
ChangeProcessFrames ==
    {DebuggerPacket(DEBUGGER_TO_DEBUGGEE_EXECUTE_ON_VMX_ROOT, "CHANGE_PROCESS",
                    <<GetRemotePid, ProcessId>>) :
        GetRemotePid \in {0, 1}, ProcessId \in Processes \cup {InvalidProcessId}}

(* The debugger's commands with every value of their parameters, and the    *)
(* continue that ends the halt.                                             *)
CommandFrames ==
    {DebuggerPacket(DEBUGGER_TO_DEBUGGEE_EXECUTE_ON_VMX_ROOT, "CONTINUE", <<>>)}
        \cup ReadRegisterFrames
        \cup QueryAndModifyFrames
        \cup ChangeProcessFrames

(* The debugger sends one of the commands. *)
KdDispatchCommand(c) == KdDispatchFrom(c, CommandFrames)

CommandNext ==
    \E c \in Cores :
        \/ Trap(c)
        \/ NmiVmexit(c)
        \/ EntryLockBreakpoint(c)
        \/ EntryCheckIgnore(c)
        \/ EntryLockAndPublish(c)
        \/ EntryNmiLock(c)
        \/ EntryNmiSend(c)
        \/ EntryClearAndUnlock(c)
        \/ KdHandleNmi(c)
        \/ ResponseLock(c)
        \/ ResponseSend(c)
        \/ ResponseCheckIgnore(c)
        \/ ManageMain(c)
        \/ ManageAfterDispatch(c)
        \/ ManagePark(c)
        \/ ManageCheck(c)
        \/ KdContinueUnlock(c)
        \/ UserResponse(c)
        \/ KdDispatchCommand(c)

(* The debuggee under a debugger that reads registers, queries events and   *)
(* switches processes while the cores are halted.                           *)
CommandSpec == Init /\ [][CommandNext]_vars

(* The halting of cores when a halt NMI can also arrive while a core is     *)
(* sending a log message: the NMI callback runs on top of the send.         *)
SendLockNext ==
    \E c \in Cores :
        \/ Trap(c)
        \/ NmiVmexit(c)
        \/ ExpectNmi(c)
        \/ \E Handled \in BOOLEAN : KdNmiCallbackWhileLogging(c, Handled)
        \/ KdNmiCallbackReturn(c)
        \/ NmiCallbackReturned(c)
        \/ EntryLockBreakpoint(c)
        \/ EntryCheckIgnore(c)
        \/ EntryLockAndPublish(c)
        \/ EntryNmiLock(c)
        \/ EntryNmiSend(c)
        \/ EntryClearAndUnlock(c)
        \/ KdHandleNmi(c)
        \/ ResponseLock(c)
        \/ ResponseSend(c)
        \/ ResponseCheckIgnore(c)
        \/ LoggingLock(c)
        \/ LoggingSend(c)
        \/ ManageMain(c)
        \/ ManageAfterDispatch(c)
        \/ ManagePark(c)
        \/ ManageCheck(c)
        \/ KdContinueUnlock(c)
        \/ KdDispatchFrom(c, NmiFrames)

SendLockSpec == Init /\ [][SendLockNext]_vars

(* The payload lengths of the oversized frames: from the shortest packet    *)
(* that does not fit the receive buffer together with its end characters to *)
(* packets that are longer than the buffer by OversizedBy bytes.            *)
OversizedBy == 3

OversizedPayloadLengths ==
    (MaxSerialPacketSize - SizeOfPacket - 3) ..
        (MaxSerialPacketSize - SizeOfPacket + OversizedBy)

(* Packets too long for the receive buffer, of every such length. *)
OversizedFrames ==
    {DebuggerPacket(DEBUGGER_TO_DEBUGGEE_EXECUTE_ON_VMX_ROOT, "RUN_SCRIPT",
                    [i \in 1 .. n |-> OtherByte]) : n \in OversizedPayloadLengths}

(* The well-formed packets the debugger sends in ResyncSpec. *)
WellFormedFrames ==
    {DebuggerPacket(DEBUGGER_TO_DEBUGGEE_EXECUTE_ON_VMX_ROOT, cmd, <<>>) :
        cmd \in {"CONTINUE", "FLUSH"}}

(* The debugger sends oversized frames of several lengths and well-formed   *)
(* packets while a core is halted in the dispatch loop.                     *)
ResyncNext ==
    \E c \in Cores :
        \/ Trap(c)
        \/ NmiVmexit(c)
        \/ EntryLockBreakpoint(c)
        \/ EntryCheckIgnore(c)
        \/ EntryLockAndPublish(c)
        \/ EntryNmiLock(c)
        \/ EntryNmiSend(c)
        \/ EntryClearAndUnlock(c)
        \/ KdHandleNmi(c)
        \/ ResponseLock(c)
        \/ ResponseSend(c)
        \/ ResponseCheckIgnore(c)
        \/ ManageMain(c)
        \/ ManageAfterDispatch(c)
        \/ ManagePark(c)
        \/ ManageCheck(c)
        \/ KdContinueUnlock(c)
        \/ KdDispatchFrom(c, OversizedFrames \cup WellFormedFrames)

ResyncSpec == Init /\ [][ResyncNext]_vars

(* The system when the transport also delivers malformed frames. *)
NoisyNext == Next \/ \E c \in Cores : KdDispatchMalformed(c)

NoisySpec == Init /\ [][NoisyNext]_vars

(* The program steps of core c: everything but the arrival of a trap, of a  *)
(* user-mode response, of a log message and of a packet from the debugger.  *)
CoreStep(c) ==
    \/ MtfTrap(c)
    \/ NmiVmexit(c)
    \/ EntryLockBreakpoint(c)
    \/ EntryCheckIgnore(c)
    \/ EntryLockAndPublish(c)
    \/ EntryNmiLock(c)
    \/ EntryNmiSend(c)
    \/ EntryClearAndUnlock(c)
    \/ KdHandleNmi(c)
    \/ ResponseLock(c)
    \/ ResponseSend(c)
    \/ ResponseCheckIgnore(c)
    \/ LoggingSend(c)
    \/ ManageMain(c)
    \/ ManageAfterDispatch(c)
    \/ ManagePark(c)
    \/ ManageCheck(c)
    \/ KdContinueUnlock(c)
    \/ KdChangeCoreUnlock(c)

(* Every core keeps executing: a core that can take a step takes one, and a *)
(* pending NMI is delivered to a core that keeps entering the guest.        *)
FairSpec ==
    Spec /\ \A c \in Cores : WF_vars(CoreStep(c)) /\ SF_vars(NmiVmexit(c))

(***************************************************************************)
(* The serial routines on their own: bytes are handed to the transport and *)
(* KdRecvBuffer is called on them, no core being halted.                   *)
(***************************************************************************)

(* The transport is given a raw frame: content, then the end of buffer. *)
Deliver ==
    /\ Sent = NoSent
    /\ \E content \in Contents :
          /\ Sent' = [Kind |-> "frame", Bytes |-> SerialConnectionSend(content)]
          /\ Wire' = SerialConnectionSend(content)
    /\ UNCHANGED <<kd, Diag, Received, RecvBuffer, nmi>>

(* KdResponsePacketToDebugger builds a packet and sends it. *)
SendPacket ==
    /\ Sent = NoSent
    /\ \E PacketType \in {DEBUGGER_TO_DEBUGGEE_EXECUTE_ON_VMX_ROOT,
                           DEBUGGEE_TO_DEBUGGER},
          Response \in {ActionCode("PAUSED"), ActionCode("RES_SCRIPT")},
          OptionalBuffer \in SeqsUpTo(ByteSamples, MaxPayloadLen) :
          \E Bytes \in {KdResponsePacket(PacketType, Response, OptionalBuffer)} :
              /\ Sent' = [Kind |-> "packet", Bytes |-> Bytes]
              /\ Wire' = SerialConnectionSend(Bytes)
    /\ UNCHANGED <<kd, Diag, Received, RecvBuffer, nmi>>

(* One byte of the payload of the packet on the wire is replaced. *)
Corrupt ==
    /\ Sent.Kind = "packet"
    /\ Received = NoReceived
    /\ \E position \in 1 .. (Len(Sent.Bytes) - SizeOfPacket),
          value \in ByteSamples :
          /\ value # Wire[SizeOfPacket + position]
          /\ Wire' = [Wire EXCEPT ![SizeOfPacket + position] = value]
    /\ Sent' = [Sent EXCEPT !.Kind = "corrupted"]
    /\ UNCHANGED <<kd, Diag, Received, RecvBuffer, nmi>>

(* KdRecvBuffer is called on the bytes the transport holds. *)
Receive ==
    /\ Sent # NoSent
    /\ Received = NoReceived
    /\ Received' = KdRecvBuffer(Wire)
    /\ Wire' = Received'.Rest
    /\ UNCHANGED <<kd, Diag, Sent, RecvBuffer, nmi>>

RecvNext == Deliver \/ SendPacket \/ Corrupt \/ Receive

RecvSpec == Init /\ [][RecvNext]_vars

(***************************************************************************)
(* Vocabulary of the properties                                            *)
(***************************************************************************)

Sending(c) == pc[c] \in {"s_lock", "s_send", "s_ignore"}

(* Core c is inside KdDispatchAndPerformCommandsFromDebugger: receiving a   *)
(* packet, or executing the action of one (its reply included).             *)
InDispatcher(c) ==
    \/ pc[c] \in {"d_recv", "c_unlock", "cc_unlock"}
    \/ Sending(c) /\ after[c] \in {"d_recv", "cc_unlock"} /\ Packet[c].act # "PAUSED"

(* Core c is blocked at (or has just passed) the parking point. *)
Parked(c) == pc[c] = "m_park" /\ Lock[c]

(***************************************************************************)
(* Properties                                                              *)
(***************************************************************************)

(* C1: in every reachable state at most one core has CurrentOperatingCore   *)
(* set.                                                                     *)
C1_AtMostOneOperatingCore ==
    Cardinality({c \in Cores : CurrentOperatingCore[c]}) <= 1

(* C2: at any time at most one core is inside the command dispatcher        *)
(* (receiving packets or executing a debugger action).                      *)
C2_AtMostOneInDispatcher ==
    Cardinality({c \in Cores : InDispatcher(c)}) <= 1

(* Core c takes a step. *)
Steps(c) == <<pc[c], idx[c]>>' # <<pc[c], idx[c]>>

(* Core c is executing the unlock loop of KdContinueDebuggee. *)
Continuing(c) == pc[c] = "c_unlock"

(* Core d is halted or has been signalled to halt: it is parked on its own  *)
(* lock, or the NMI that parks it is on its way.                            *)
Halted(d) == Parked(d) \/ pc[d] = "n_lock" \/ (pc[d] = "run" /\ nmiPending[d])

(* C3: once the operating core has handled a Continue every halted core     *)
(* returns to running the guest: when the unlock loop of the Continue ends  *)
(* no core is left parked on its lock or on its way to park, since no core  *)
(* remains to release it.                                                   *)
C3_ContinueReleasesAll ==
    [][\A c \in Cores :
          (Continuing(c) /\ pc'[c] # "c_unlock") =>
              \A d \in Cores : ~Halted(d)']_vars

(* Core c is outside the entry point, the NMI handler and the coordinator. *)
Returned(c) == pc[c] \in {"run", "l_send"} \/ (Sending(c) /\ after[c] = "run")

(* No leak: with every core back from the coordinator all locks are free. *)
NoLockLeak ==
    (\A c \in Cores : Returned(c)) =>
        (\A c \in Cores : ~Lock[c]) /\ ~DebuggerHandleBreakpointLock

(* No double unlock: the unlock loop of Continue, the unlock after a core   *)
(* change and the unlock of Step are applied to locks that are held.        *)
NoDoubleUnlock ==
    \A c \in Cores :
        /\ (Continuing(c) /\ Steps(c)) => Lock[idx[c]]
        /\ (pc[c] = "cc_unlock" /\ Steps(c)) => Lock[NewCore[c]]
        /\ (pc[c] = "d_recv" /\ pc'[c] = "m_after") => Lock[c]

(* C4: the per-core locks are balanced: no lock is left held once all cores *)
(* have returned from the coordinator, and no unlock is applied to a lock   *)
(* that is already free.                                                    *)
C4_LocksBalanced == []NoLockLeak /\ [][NoDoubleUnlock]_vars

(* Core d can execute: it is neither parked on its own lock nor spinning on *)
(* a held breakpoint lock.                                                  *)
CanRun(d) ==
    /\ ~Parked(d)
    /\ ~(pc[d] = "e_bplock" /\ DebuggerHandleBreakpointLock)

(* Core a has handed the debugger over to core b and parked. *)
HandedOver(a, b) ==
    /\ a # b
    /\ Parked(a)
    /\ ~CurrentOperatingCore[a]
    /\ CurrentOperatingCore[b]

(* C5: after a successful change-core from A to B, B becomes the operating  *)
(* core and runs the dispatcher (B is never left unable to take a step),    *)
(* while A stays parked with its lock held until its lock is released by a  *)
(* continue or a change-core back to A.                                     *)
C5_ChangeCoreHandsOver ==
    /\ [](\A a, b \in Cores : HandedOver(a, b) => CanRun(b))
    /\ [][\A a \in Cores :
             (Parked(a) /\ ~Lock'[a]) =>
                 \E c \in Cores \ {a} :
                     \/ Continuing(c) /\ idx[c] = a
                     \/ pc[c] = "cc_unlock" /\ NewCore[c] = a]_vars

(* The reply to a change-core packet naming target is being prepared. *)
ChangeCoreStep(c, target) ==
    /\ pc[c] = "d_recv"
    /\ pc'[c] = "s_lock"
    /\ Packet'[c].act = "RES_CHANGE_CORE"
    /\ Packet'[c].core = target

(* C6: a change-core to an id >= the core count replies with the            *)
(* invalid-core error, a change-core to the current core replies with       *)
(* success, and both change nothing: flags, locks and the interrupt-flag    *)
(* bookkeeping stay as they are and the same core keeps dispatching.        *)
C6_ChangeCoreNoOp ==
    [][\A c \in Cores : \A target \in CoreIds :
          (ChangeCoreStep(c, target) /\ (target >= CoreCount \/ target = c)) =>
              /\ Packet'[c].res = (IF target = c THEN "OK" ELSE "INVALID_CORE")
              /\ after'[c] = "d_recv"
              /\ NewCore'[c] = NoCore
              /\ UNCHANGED <<CurrentOperatingCore, Lock, GuestIF,
                             EnableInterruptFlagOnContinue>>]_vars

C6_Witness ==
    \E c \in Cores :
        /\ pc[c] = "s_send"
        /\ Packet[c].act = "RES_CHANGE_CORE"
        /\ Packet[c].res = "INVALID_CORE"
        /\ CurrentOperatingCore[c]

(* Core c is sending its pause report or executing a debugger command. *)
Acting(c) ==
    \/ pc[c] = "s_send" /\ Packet[c].act = "PAUSED"
    \/ InDispatcher(c) /\ pc[c] # "d_recv"

(* C7: whenever the operating core sends its pause report or executes a     *)
(* debugger command, every other core is parked on its own lock.            *)
C7_OthersParked ==
    \A c \in Cores : Acting(c) => \A d \in Cores \ {c} : Parked(d)

(* C8: with a suppression request pending the entry point returns without   *)
(* halting: no per-core lock taken, no NMI, no pause report, halt reason    *)
(* and tag untouched, no operating core made, breakpoint lock free again.   *)
C8_SuppressedEntryReturns ==
    [][\A c \in Cores :
          /\ (pc[c] = "e_bplock" /\ Steps(c)) =>
                /\ pc'[c] = "e_check"
                /\ UNCHANGED <<Lock, nmiPending, halt, CurrentOperatingCore,
                               Packet, g_IgnoreBreaksToDebugger>>
          /\ (pc[c] = "e_check" /\ g_IgnoreBreaksToDebugger.flag /\ Steps(c)) =>
                /\ pc'[c] = "run"
                /\ ~DebuggerHandleBreakpointLock'
                /\ UNCHANGED <<Lock, nmiPending, halt, CurrentOperatingCore,
                               Packet, g_IgnoreBreaksToDebugger>>]_vars

C8_Witness ==
    \E c \in Cores :
        /\ pc[c] = "e_check"
        /\ g_IgnoreBreaksToDebugger.flag
        /\ \A d \in Cores \ {c} : pc[d] = "run"

(* A packet whose action is the one the suppression request waits for is    *)
(* past its transmission.                                                   *)
MatchingSent ==
    \E c \in Cores :
        pc[c] = "s_ignore" /\ Packet[c].act = g_IgnoreBreaksToDebugger.action

(* C9: the suppression request is recorded before any per-core lock is      *)
(* released, it stays pending until a packet with its action has been sent, *)
(* and while it is pending no trap gets past the check of the entry point,  *)
(* no core enters the main-core path of the coordinator, no core becomes    *)
(* the operating core and no pause report is transmitted.                   *)
C9_SuppressionShields ==
    [][/\ (g_IgnoreBreaksToDebugger'.flag
             /\ g_IgnoreBreaksToDebugger' # g_IgnoreBreaksToDebugger) =>
              /\ UNCHANGED Lock
              /\ g_IgnoreBreaksToDebugger'.action \in
                    {"RES_REG_EVENT", "RES_ADD_ACTION", "RES_QUERY_MODIFY"}
              /\ \E c \in Cores :
                    pc[c] = "d_recv" /\ Continuing(c)' /\ idx'[c] = 0
       /\ (g_IgnoreBreaksToDebugger.flag /\ ~MatchingSent) =>
              g_IgnoreBreaksToDebugger'.flag
       /\ g_IgnoreBreaksToDebugger.flag =>
              \A c \in Cores :
                  /\ (pc[c] = "e_check" /\ Steps(c)) => pc'[c] = "run"
                  /\ ~(pc[c] = "m_main" /\ Steps(c))
                  /\ CurrentOperatingCore'[c] => CurrentOperatingCore[c]
                  /\ ~(pc[c] = "s_send" /\ Steps(c)
                         /\ Packet[c].act = "PAUSED")]_vars

C9_Witness ==
    /\ g_IgnoreBreaksToDebugger.flag
    /\ \E c \in Cores : Continuing(c) /\ idx[c] = 0
    /\ \E d \in Cores : pc[d] = "e_bplock"

(* C10: the sender clears the suppression request exactly when one is       *)
(* pending and the action of the packet sent equals the recorded action;    *)
(* any other action, and a logging packet, leave the request unchanged.     *)
C10_ClearOnlyOnMatch ==
    [][\A c \in Cores :
          /\ (pc[c] = "s_ignore" /\ Steps(c)) =>
                g_IgnoreBreaksToDebugger' =
                    IF /\ g_IgnoreBreaksToDebugger.flag
                       /\ Packet[c].act = g_IgnoreBreaksToDebugger.action
                    THEN [flag |-> FALSE, action |-> "NO_ACTION"]
                    ELSE g_IgnoreBreaksToDebugger
          /\ ((pc[c] = "l_send" \/ pc'[c] = "l_send") /\ Steps(c)) =>
                UNCHANGED g_IgnoreBreaksToDebugger]_vars

C10_Witness ==
    \E c \in Cores :
        /\ pc[c] = "s_ignore"
        /\ g_IgnoreBreaksToDebugger.flag
        /\ Packet[c].act # g_IgnoreBreaksToDebugger.action
        /\ Packet[c].act \in UserResponses

(* Core c has finished a single step and waits at the entry point for the   *)
(* breakpoint lock.                                                         *)
StepPending(c) == pc[c] = "e_bplock" /\ Reason[c] = "STEPPED"

(* C11: every Step by the operating core is followed by that core           *)
(* re-entering the entry point through the step-complete trap, taking the   *)
(* breakpoint lock and reporting the pause with reason step-finished, with  *)
(* no deadlock between: while a finished step waits for the breakpoint      *)
(* lock, some core is able to execute (and so to release the lock).         *)
C11_StepNeverBlocked ==
    \A c \in Cores : StepPending(c) => \E d \in Cores : CanRun(d)

(* The dispatcher of core c handles a Step packet. *)
StepStep(c) == pc[c] = "d_recv" /\ pc'[c] = "m_after"

(* C12: a Step releases exactly the lock of the core that executes it: all  *)
(* other per-core locks and the two global locks are unchanged, every other *)
(* core stays where it is (a parked core stays parked), and the dispatch    *)
(* loop of the stepping core ends.                                          *)
C12_StepReleasesOwnLockOnly ==
    [][\A c \in Cores :
          StepStep(c) =>
              /\ ~Lock'[c]
              /\ \A d \in Cores \ {c} :
                    /\ Lock'[d] = Lock[d]
                    /\ pc'[d] = pc[d]
                    /\ Parked(d) => Parked(d)'
              /\ DebuggerHandleBreakpointLock' = DebuggerHandleBreakpointLock
              /\ DebuggerResponseLock' = DebuggerResponseLock
              /\ ~InDispatcher(c)']_vars

(* A Step has been executed while another core is parked. *)
C12_Witness ==
    \E c \in Cores :
        /\ pc[c] = "m_after"
        /\ WaitForStepOnMtf[c]
        /\ ~Lock[c]
        /\ \E d \in Cores \ {c} : Parked(d)

(* The dispatcher of core c handles a packet of the continue class. *)
ContinueStep(c) == pc[c] = "d_recv" /\ pc'[c] = "c_unlock"

(* While the mark is set the guest's interrupt flag is off. *)
ForcedOffMeansOff ==
    \A c \in Cores : EnableInterruptFlagOnContinue[c] => ~GuestIF[c]

(* C13: a guest interrupt flag forced off by a Step is restored exactly     *)
(* once.  A Step with interrupts enabled and no mark clears the flag and    *)
(* sets the mark; a Step with the mark set changes neither; a Continue with *)
(* the mark set turns the flag on and clears the mark; a Continue with the  *)
(* mark clear leaves the flag alone; the mark is never cleared without the  *)
(* flag being turned on, and the debugger never turns the flag on without   *)
(* consuming the mark.                                                      *)
C13_InterruptFlagRestoredOnce ==
    /\ []ForcedOffMeansOff
    /\ [][\A c \in Cores :
             /\ StepStep(c) =>
                   IF ~EnableInterruptFlagOnContinue[c] /\ GuestIF[c]
                   THEN ~GuestIF'[c] /\ EnableInterruptFlagOnContinue'[c]
                   ELSE /\ GuestIF'[c] = GuestIF[c]
                        /\ EnableInterruptFlagOnContinue'[c] =
                              EnableInterruptFlagOnContinue[c]
             /\ ContinueStep(c) =>
                   /\ ~EnableInterruptFlagOnContinue'[c]
                   /\ GuestIF'[c] = (GuestIF[c] \/ EnableInterruptFlagOnContinue[c])
             /\ (EnableInterruptFlagOnContinue[c] /\ ~EnableInterruptFlagOnContinue'[c])
                   => GuestIF'[c]
             /\ (pc[c] # "run" /\ ~GuestIF[c] /\ GuestIF'[c])
                   => (EnableInterruptFlagOnContinue[c]
                         /\ ~EnableInterruptFlagOnContinue'[c])]_vars

(* A Step has forced the interrupt flag of core c off, the step has         *)
(* completed and the core is back in the dispatcher with the mark set.      *)
C13_Witness ==
    \E c \in Cores :
        /\ pc[c] = "d_recv"
        /\ g_DebuggeeHaltReason = "STEPPED"
        /\ EnableInterruptFlagOnContinue[c]
        /\ ~GuestIF[c]

(* KdRecvBuffer has been called on what was handed to the transport, and    *)
(* what was handed over fits the receive buffer with its end characters.    *)
ReceivedWhatFits(kind) ==
    /\ Sent.Kind = kind
    /\ Received # NoReceived
    /\ Len(Sent.Bytes) + (IF kind = "frame" THEN 0 ELSE Len(EndOfBuffer))
          <= MaxSerialPacketSize

(* C14: for every byte sequence that ends in the four end characters,       *)
(* whatever its length and whatever comes before them, KdRecvBuffer         *)
(* succeeds, returns the number of bytes minus four and leaves the content  *)
(* in the buffer with the four end characters cleared.                      *)
C14_ReceiveStripsSentinel ==
    ReceivedWhatFits("frame") =>
        /\ Received.Status = "received"
        /\ Received.Length = Len(Sent.Bytes) - 4
        /\ \A i \in 0 .. (Received.Length - 1) :
              Received.Buffer[i] = Sent.Bytes[i + 1]
        /\ \A i \in Received.Length .. (Received.Length + 3) :
              Received.Buffer[i] = 0

(* The checksum the dispatcher computes over what KdRecvBuffer returned. *)
RecomputedChecksum ==
    KdComputeDataChecksum(BytesOf(Received.Buffer, OffsetOfIndicator,
                                  Received.Length - 1))

(* C15: for every packet KdResponsePacketToDebugger builds, with or without *)
(* an optional buffer, the receiver gets the header and the payload without *)
(* the end characters, and the checksum it recomputes over the bytes after  *)
(* the checksum field equals the checksum field the sender wrote.           *)
C15_ChecksumRoundTrip ==
    ReceivedWhatFits("packet") =>
        /\ Received.Status = "received"
        /\ Received.Length = Len(Sent.Bytes)
        /\ RecomputedChecksum = Sent.Bytes[1]

(* C16: for every valid packet and every position of its payload, replacing *)
(* the byte at that position by a different value makes the checksum        *)
(* recomputed by the receiver differ from the checksum field of the packet. *)
C16_SingleByteChangeDetected ==
    (ReceivedWhatFits("corrupted") /\ Received.Status = "received") =>
        RecomputedChecksum # Received.Buffer[0]

(* The end characters are complete somewhere in the first n bytes of b, at  *)
(* a place where KdCheckForTheEndOfTheBuffer looks for them.                *)
EndWithin(b, n) ==
    \E i \in 2 .. (n - 3) : i + 3 <= Len(b) /\ SubSeq(b, i, i + 3) = EndOfBuffer

(* C17: KdRecvBuffer fails exactly when the maximum packet size is exceeded *)
(* before the end characters are matched: a frame of at most                *)
(* MaxSerialPacketSize bytes, end characters included, is accepted; a byte  *)
(* that arrives after MaxSerialPacketSize bytes were stored without a match *)
(* makes it fail; no byte is stored at an index >= MaxSerialPacketSize.     *)
C17_FailsOnlyOnOverflow ==
    (Sent.Kind = "frame" /\ Received # NoReceived) =>
        /\ (Len(Sent.Bytes) <= MaxSerialPacketSize) => (Received.Status = "received")
        /\ (Received.Status = "failed") <=>
              (/\ Len(Sent.Bytes) > MaxSerialPacketSize
               /\ ~EndWithin(Sent.Bytes, MaxSerialPacketSize))
        /\ \A i \in Received.Stored : i < MaxSerialPacketSize

(* Core c runs one iteration of the dispatch loop; RecvBuffer'[c] is the    *)
(* buffer the iteration worked on.                                          *)
Dispatches(c) == pc[c] = "d_recv" /\ RecvBuffer'[c] # RecvBuffer[c]

(* KdRecvBuffer failed or the checksum test failed (Kd.c:1277, 1290). *)
Rejected(r) == Verdict(r) \in {"too_large", "checksum"}

(* C18: a packet rejected for a checksum mismatch or an oversized buffer is *)
(* discarded: nothing of it is left for the next reception, no action is    *)
(* executed, no reply is sent, the flags, the halt context, the suppression *)
(* request and all locks are unchanged, and the core stays in the loop.     *)
C18_RejectedPacketDiscarded ==
    [][\A c \in Cores :
          (Dispatches(c) /\ Rejected(RecvBuffer'[c])) =>
              /\ UNCHANGED kd
              /\ Sent' = Sent
              /\ Diag' \subseteq {"too_large", "checksum"}
              /\ Wire' = <<>>]_vars

(* The buffer r was received whole and its indicator field is not the       *)
(* protocol indicator.                                                      *)
ForeignFrame(r) ==
    /\ r.Status = "received"
    /\ r.Buffer[OffsetOfIndicator] # INDICATOR_OF_HYPERDBG_PACKER

(* C19: a received frame whose indicator field is not the protocol          *)
(* indicator triggers the debug break and nothing else: no other            *)
(* diagnostic, no action, no reply, no lock released, and the core stays in *)
(* the dispatch loop.                                                       *)
C19_ForeignFrameBreaksOnly ==
    [][\A c \in Cores :
          (Dispatches(c) /\ ForeignFrame(RecvBuffer'[c])) =>
              /\ Diag' = {"break"}
              /\ UNCHANGED kd
              /\ Sent' = Sent]_vars

(* The operating core has just met a foreign frame while another core is    *)
(* parked on its lock.                                                      *)
C19_Witness ==
    \E c \in Cores :
        /\ pc[c] = "d_recv"
        /\ ForeignFrame(RecvBuffer[c])
        /\ Diag = {"break"}
        /\ Lock[c]
        /\ \E d \in Cores \ {c} : Parked(d)

(* The action the switch selects for the received buffer r (Kd.c:1314). *)
RequestedAction(r) ==
    CommandOf(r.Buffer[OffsetOfRequestedAction], r.Buffer[SizeOfPacket])

(* The cases of the switch that set EscapeFromTheLoop unconditionally. *)
ContinueClass ==
    {"CONTINUE", "STEP", "CLOSE_AND_UNLOAD", "USER_INPUT", "REGISTER_EVENT",
     "ADD_ACTION", "CLEAR_EVENTS"}

(* The cases of the switch that reply and leave EscapeFromTheLoop clear,    *)
(* and the default case.                                                    *)
StayClass ==
    {"FLUSH", "READ_REGS", "CHANGE_PROCESS", "RUN_SCRIPT", "QUERY_MODIFY", "UNKNOWN"}

(* The received buffer r is a change-core from core c that succeeds: the    *)
(* target is another core and KdSwitchCore accepts it.                      *)
ChangedCore(c, r) ==
    /\ RequestedAction(r) = "CHANGE_CORE"
    /\ r.Buffer[SizeOfPacket] # c
    /\ KdSwitchCoreValid(r.Buffer[SizeOfPacket])

(* C20: the dispatch loop on the operating core ends only after a           *)
(* continue-class action or a successful change-core; while the core        *)
(* handles a flush, read-registers, change-process, run-script,             *)
(* query/enable/disable-event or unknown action it stays in the loop, no    *)
(* per-core lock is released and the operating core is unchanged.           *)
C20_LoopEndsOnlyOnContinueClass ==
    [][\A c \in Cores :
          /\ (InDispatcher(c) /\ ~InDispatcher(c)') =>
                \/ RequestedAction(RecvBuffer'[c]) \in ContinueClass
                \/ ChangedCore(c, RecvBuffer'[c])
          /\ (/\ InDispatcher(c)
              /\ Steps(c) \/ RecvBuffer'[c] # RecvBuffer[c]
              /\ RequestedAction(RecvBuffer'[c]) \in StayClass) =>
                /\ InDispatcher(c)'
                /\ Lock' = Lock
                /\ CurrentOperatingCore' = CurrentOperatingCore]_vars

(* The operating core is replying to a flush request while another core is  *)
(* parked on its lock.                                                      *)
C20_Witness ==
    \E c \in Cores :
        /\ pc[c] = "s_lock"
        /\ after[c] = "d_recv"
        /\ RequestedAction(RecvBuffer[c]) = "FLUSH"
        /\ Lock[c]
        /\ CurrentOperatingCore[c]
        /\ \E d \in Cores \ {c} : Parked(d)

(* Core c takes no part in the debugger's halting. *)
Untouched(c) == pc'[c] = pc[c] /\ UNCHANGED <<kd, serial>>

(* C21: an NMI on a core that is not waiting for one is passed through: the *)
(* callback returns the Handled it was given, takes no lock, does not park  *)
(* the core and changes no debugger state; an NMI on a core that is waiting *)
(* clears the flag and, when the callback returns, is reported as handled.  *)
C21_UnexpectedNmiPassedThrough ==
    [][\A c \in Cores :
          /\ (NmiCall[c] = NoCall /\ NmiCall'[c] # NoCall /\ ~WaitingForNmi[c]) =>
                /\ NmiCall'[c].Status = "returned"
                /\ NmiCall'[c].Returned = NmiCall'[c].Handled
                /\ Untouched(c)
                /\ WaitingForNmi' = WaitingForNmi
          /\ (NmiCall[c] = NoCall /\ NmiCall'[c] # NoCall /\ WaitingForNmi[c]) =>
                /\ ~WaitingForNmi'[c]
                /\ NmiCall'[c].Status = "running"
          /\ (NmiCall[c].Status = "running" /\ NmiCall'[c].Status = "returned") =>
                NmiCall'[c].Returned]_vars

(* A callback that was given Handled = FALSE has passed an NMI through on   *)
(* core c while another core is halted in the dispatcher, and a callback    *)
(* that was given FALSE has claimed an NMI on the other core and returned.  *)
C21_Witness ==
    \E c, d \in Cores :
        /\ c # d
        /\ NmiCall[c] = [NoCall EXCEPT !.Status = "returned"]
        /\ NmiCall[d] = [NoCall EXCEPT !.Status = "returned", !.Returned = TRUE]

(***************************************************************************)
(* Replies to the debugger's commands                                      *)
(***************************************************************************)

(* Core c hands the reply to command cmd to the transport. *)
Replying(c, cmd) ==
    /\ pc[c] = "s_send"
    /\ after[c] = "d_recv"
    /\ RequestedAction(RecvBuffer[c]) = cmd

(* The ids of the general-purpose registers. *)
GeneralRegisterIds == {REGISTER(GeneralRegisters[i]) : i \in DOMAIN GeneralRegisters}

(* C22: the reply to a read-registers command for a general-purpose         *)
(* register (RAX .. R15) carries success and, as Value, that register's     *)
(* value in the snapshot of the core that runs the dispatcher.              *)
C22_ReadRegisterReturnsItsValue ==
    \A c \in Cores :
        (Replying(c, "READ_REGS")
            /\ RecvBuffer[c].Buffer[SizeOfPacket] \in GeneralRegisterIds)
        => /\ Packet[c].act = "RES_READ_REGS"
           /\ Packet[c].OptionalBuffer.KernelStatus = "OK"
           /\ Packet[c].OptionalBuffer.Value =
                 GuestRegs(c)[RegisterNames[RecvBuffer[c].Buffer[SizeOfPacket] + 1]]

(* The ids of the registers KdReadRegisters reads one at a time. *)
SingleRegisterIds == {REGISTER(RegisterNames[i]) : i \in DOMAIN RegisterNames}

(* C23: the reply to a read-registers command with the all-registers id has *)
(* the length of the description plus the length of the register file, and  *)
(* its register bytes are the snapshot of the core; the reply to a command  *)
(* with a single-register id has the length of the description only.        *)
C23_ReadRegistersReplyLength ==
    \A c \in Cores :
        Replying(c, "READ_REGS")
        => LET RegisterID == RecvBuffer[c].Buffer[SizeOfPacket]
               Reply_ == Packet[c].OptionalBuffer
           IN  /\ RegisterID = DEBUGGEE_SHOW_ALL_REGISTERS
                    => /\ Reply_.Length = SizeOfRegisterReadDescription + SizeOfGuestRegs
                       /\ Len(Reply_.Registers) = SizeOfGuestRegs
                       /\ \A i \in DOMAIN GeneralRegisters :
                             Reply_.Registers[i] = GuestRegs(c)[GeneralRegisters[i]]
               /\ RegisterID \in SingleRegisterIds
                    => Reply_.Length = SizeOfRegisterReadDescription

(* A core sends the reply to a read of all registers. *)
C23_Witness ==
    \E c \in Cores :
        /\ Replying(c, "READ_REGS")
        /\ RecvBuffer[c].Buffer[SizeOfPacket] = DEBUGGEE_SHOW_ALL_REGISTERS
        /\ Packet[c].OptionalBuffer.Length > SizeOfRegisterReadDescription
        /\ Packet[c].OptionalBuffer.Registers[SizeOfGuestRegs] = GuestRegs(c)["r15"]

(* The received buffer r is a query-and-modify packet, of any type of       *)
(* action, on a tag that is neither registered nor the tag of all events.   *)
InvalidTagRequest(r) ==
    /\ Verdict(r) = "none"
    /\ RequestedAction(r) \in {"QUERY_MODIFY", "CLEAR_EVENTS"}
    /\ r.Buffer[SizeOfPacket + 1] # DEBUGGER_MODIFY_EVENTS_APPLY_TO_ALL_TAG
    /\ r.Buffer[SizeOfPacket + 1] \notin Tags

(* C24: a query-and-modify command on an invalid tag is answered, whatever  *)
(* its type of action, with a reply that carries the invalid-tag status;    *)
(* nothing is handed to user mode, the core does not enter the unlock loop  *)
(* of a continue and no suppression request is recorded.                    *)
C24_InvalidTagAlwaysAnswered ==
    [][\A c \in Cores :
          (Dispatches(c) /\ InvalidTagRequest(RecvBuffer'[c]))
          => /\ pc'[c] = "s_lock"
             /\ Packet'[c].act = "RES_QUERY_MODIFY"
             /\ Packet'[c].OptionalBuffer.KernelStatus = "INVALID_TAG"
             /\ "OPERATION_DEBUGGEE_CLEAR_EVENTS" \notin Diag'
             /\ Lock' = Lock
             /\ g_IgnoreBreaksToDebugger' = g_IgnoreBreaksToDebugger]_vars

(* C25: the reply to a change-process command that asks to switch to a      *)
(* process id no process has carries the unable-to-switch error as its      *)
(* Result, never success.                                                   *)
C25_InvalidProcessIdIsAnError ==
    \A c \in Cores :
        (/\ Replying(c, "CHANGE_PROCESS")
         /\ RecvBuffer[c].Buffer[SizeOfPacket] = 0
         /\ RecvBuffer[c].Buffer[SizeOfPacket + 1] \notin Processes)
        => /\ Packet[c].act = "RES_CHANGE_PROCESS"
           /\ Packet[c].OptionalBuffer.Result = "UNABLE_TO_SWITCH_TO_NEW_PROCESS"

(***************************************************************************)
(* The pause report                                                        *)
(***************************************************************************)

(* Core c is between publishing its halt reason in the entry point and the  *)
(* call of KdResponsePacketToDebugger for its pause packet.                 *)
AboutToReport(c) == via[c] = "trap" /\ pc[c] \in {"e_nmi_lock", "e_nmi_send", "m_main"}

(* C26: the first packet of a core that traps and becomes operating is a    *)
(* pause packet with that core as CurrentCore, the reason the trap passed   *)
(* and the tag of the event that caused the trap (none without an event);   *)
(* it is sent before the core receives any command.                         *)
C26_TrapSendsPauseReportFirst ==
    [][\A c \in Cores :
          /\ (pc[c] = "e_lockself" /\ pc'[c] # "e_lockself")
                => /\ g_DebuggeeHaltReason' = Reason[c]
                   /\ EventDetails'[c] = EventDetails[c]
                   /\ AboutToReport(c)'
          /\ (AboutToReport(c) /\ AboutToReport(c)')
                => /\ g_DebuggeeHaltReason' = g_DebuggeeHaltReason
                   /\ EventDetails'[c] = EventDetails[c]
                   /\ RecvBuffer'[c] = NoReceived
          /\ (AboutToReport(c) /\ ~AboutToReport(c)')
                => /\ pc[c] = "m_main" /\ pc'[c] = "s_lock"
                   /\ CurrentOperatingCore'[c]
                   /\ Packet'[c].act = "PAUSED"
                   /\ Packet'[c].core = c
                   /\ Packet'[c].reason = g_DebuggeeHaltReason
                   /\ Packet'[c].tag = EventDetails[c]
                   /\ after'[c] = "d_recv"
                   /\ RecvBuffer'[c] = NoReceived
          /\ (pc[c] = "s_lock" /\ Packet[c].act = "PAUSED")
                => (Packet'[c] = Packet[c] /\ pc'[c] \in {"s_lock", "s_send"})]_vars

(* Core 0 hands the pause packet of an event with tag 5 to the transport    *)
(* before it received anything.                                             *)
C26_Witness ==
    /\ pc[0] = "s_send"
    /\ via[0] = "trap"
    /\ Packet[0].act = "PAUSED"
    /\ Packet[0].core = 0
    /\ Packet[0].reason = "EVENT_TRIGGERED"
    /\ Packet[0].tag = 5
    /\ RecvBuffer[0] = NoReceived

(***************************************************************************)
(* The response lock                                                       *)
(***************************************************************************)

(* Core c writes a response packet or a logging packet to the transport. *)
Writing(c) == pc[c] \in {"s_send", "l_send"}

(* Core c issues the halt NMI broadcast of the entry point. *)
Broadcasting(c) == pc[c] = "e_nmi_send"

(* C27: at most one core at a time writes to the transport, response        *)
(* packets and logging packets alike; no core issues the halt NMI           *)
(* broadcast while another core is sending; the response lock is held       *)
(* exactly while a core sends or broadcasts, so it is free after every      *)
(* send.                                                                    *)
C27_SendsNeverInterleave ==
    /\ \A c, d \in Cores :
          (c # d /\ (Writing(c) \/ Broadcasting(c))) => ~(Writing(d) \/ Broadcasting(d))
    /\ DebuggerResponseLock <=> \E c \in Cores : Writing(c) \/ Broadcasting(c)

(* Core 0 sends a logging packet while core 1 waits for the response lock   *)
(* to send its pause packet.                                                *)
C27_Witness ==
    /\ pc[0] = "l_send"
    /\ pc[1] = "s_lock"
    /\ Packet[1].act = "PAUSED"
    /\ DebuggerResponseLock

(***************************************************************************)
(* The breakpoint lock                                                     *)
(***************************************************************************)

(* Core c is in the entry point between SpinlockLock and SpinlockUnlock of  *)
(* DebuggerHandleBreakpointLock.                                            *)
InEntryPoint(c) == via[c] = "trap" /\ pc[c] \notin {"run", "e_bplock"}

(* Core c has trapped and waits for the breakpoint lock. *)
WaitsForBreakpointLock(c) == via[c] = "trap" /\ pc[c] = "e_bplock"

ChangeCoreReplyPending(c) ==
    /\ pc[c] \in {"s_lock", "s_send"}
    /\ Packet[c].act = "RES_CHANGE_CORE"
    /\ after[c] = "cc_unlock"

(* Core d sends, or has just sent, a pause packet. *)
ReportsPause(d) == pc[d] \in {"s_send", "s_ignore"} /\ Packet[d].act = "PAUSED"

(* C29: from a successful change of core until its reply is completely sent *)
(* no per-core lock is released, and the target core does not send its      *)
(* pause report.                                                            *)
C29_NoUnlockBeforeChangeCoreReply ==
    /\ [][\A c \in Cores :
             ChangeCoreReplyPending(c) => \A d \in Cores : Lock[d] => Lock'[d]]_vars
    /\ [](\A c \in Cores : ChangeCoreReplyPending(c) => ~ReportsPause(NewCore[c]))

(* Core c executes the unlock that follows the reply to a successful change *)
(* of core.                                                                 *)
UnlocksAfterChangeCore(c) == pc[c] = "cc_unlock" /\ pc'[c] # "cc_unlock"

(* The steps of core c from a successful change of core to the unlock       *)
(* exclusive: the flags are flipped and the reply is built, it is sent, and *)
(* no per-core lock changes.                                                *)
ChangeCoreThenReply(c) ==
    /\ (Dispatches(c) /\ ChangedCore(c, RecvBuffer'[c]))
          => /\ ~CurrentOperatingCore'[c]
             /\ CurrentOperatingCore'[RecvBuffer'[c].Buffer[SizeOfPacket]]
             /\ Packet'[c].act = "RES_CHANGE_CORE"
             /\ Packet'[c].res = "OK"
             /\ pc'[c] = "s_lock"
             /\ after'[c] = "cc_unlock"
             /\ Lock' = Lock
    /\ (after[c] = "cc_unlock" /\ pc[c] \in {"s_lock", "s_send", "s_ignore"}
            /\ pc'[c] # pc[c])
          => /\ Lock' = Lock
             /\ pc[c] = "s_lock" => pc'[c] = "s_send"
             /\ pc[c] = "s_send" => pc'[c] = "s_ignore"
             /\ pc[c] = "s_ignore" => pc'[c] = "cc_unlock"
    /\ (pc'[c] = "cc_unlock" /\ pc[c] # "cc_unlock") => pc[c] = "s_ignore"

(* C30 as stated: after the reply to a successful change of core the        *)
(* dispatcher unlocks the per-core lock of the previous operating core.     *)
C30_UnlocksPreviousCoreAfterReply ==
    [][\A c \in Cores :
          /\ ChangeCoreThenReply(c)
          /\ UnlocksAfterChangeCore(c) => (Lock[c] /\ ~Lock'[c])]_vars

(* C30, corrected: on a successful change of core the dispatcher flips the  *)
(* operating flags, sends the reply, and only then unlocks the per-core     *)
(* lock of the new operating core; the lock of the previous operating core  *)
(* is not released.                                                         *)
C30_UnlocksNewCoreAfterReply ==
    [][\A c \in Cores :
          /\ ChangeCoreThenReply(c)
          /\ UnlocksAfterChangeCore(c)
                => /\ NewCore[c] \in Cores \ {c}
                   /\ ~Lock'[NewCore[c]]
                   /\ \A d \in Cores \ {NewCore[c]} : Lock'[d] = Lock[d]]_vars

(* Core 0 has changed to the parked core 1, sent the reply and unlocked:    *)
(* core 1 is operating with its lock free, core 0 keeps its own lock.       *)
C30_Witness ==
    /\ pc[0] = "m_after"
    /\ pc[1] = "m_park"
    /\ ChangedCore(0, RecvBuffer[0])
    /\ ~CurrentOperatingCore[0]
    /\ CurrentOperatingCore[1]
    /\ Lock[0]
    /\ ~Lock[1]

(***************************************************************************)
(* The park loop                                                           *)
(***************************************************************************)

(* Core c has taken the halt NMI or left the dispatcher without being the   *)
(* operating core: it is about to block on its own lock, is blocked on it,  *)
(* or has just been granted it.                                             *)
HaltedWaiting(c) == pc[c] \in {"n_lock", "m_park", "m_check"}

(* Core c dispatches a change-core command that succeeds and names core d. *)
ChangesCoreTo(c, d) ==
    /\ Dispatches(c)
    /\ ChangedCore(c, RecvBuffer'[c])
    /\ RecvBuffer'[c].Buffer[SizeOfPacket] = d

(* Core c is granted its lock in the park loop and goes on. *)
LeavesPark(c) == pc[c] = "m_check" /\ pc'[c] # "m_check"

(* Core c is about to build its pause packet after it took over. *)
TakesOver(c) == pc[c] = "m_main" /\ g_DebuggeeHaltReason = "CORE_SWITCHED"

(* C31: while a core waits in the park loop its operating flag is set only  *)
(* by a change-core command that names it; when it is granted its lock with *)
(* the flag set it takes over with reason core-switched and the next packet *)
(* it sends is a pause report with that reason and its own id; when it is   *)
(* granted its lock with the flag clear it releases the lock and returns    *)
(* without sending anything.                                                *)
C31_ParkedCoreTakesOverOnlyOnChangeCore ==
    [][\A d \in Cores :
          /\ (HaltedWaiting(d) /\ ~CurrentOperatingCore[d] /\ CurrentOperatingCore'[d])
                => \E c \in Cores \ {d} : ChangesCoreTo(c, d)
          /\ (LeavesPark(d) /\ CurrentOperatingCore[d])
                => /\ pc'[d] = "m_main"
                   /\ g_DebuggeeHaltReason' = "CORE_SWITCHED"
          /\ (TakesOver(d) /\ pc'[d] = "m_main")
                => g_DebuggeeHaltReason' = "CORE_SWITCHED"
          /\ (TakesOver(d) /\ pc'[d] # "m_main")
                => /\ pc'[d] = "s_lock"
                   /\ Packet'[d].act = "PAUSED"
                   /\ Packet'[d].core = d
                   /\ Packet'[d].reason = "CORE_SWITCHED"
          /\ (LeavesPark(d) /\ ~CurrentOperatingCore[d])
                => /\ ~Lock'[d]
                   /\ pc'[d] \in {"run", "e_clear", "k_return"}
                   /\ Packet'[d] = NoPkt
                   /\ Sent' = Sent]_vars

(* Core 1, parked by the halt NMI and named by a change-core command, sends *)
(* its pause report with reason core-switched.                              *)
C31_Witness ==
    /\ pc[1] = "s_send"
    /\ via[1] = "nmi"
    /\ CurrentOperatingCore[1]
    /\ Packet[1].act = "PAUSED"
    /\ Packet[1].core = 1
    /\ Packet[1].reason = "CORE_SWITCHED"

(* The step releases the per-core lock of d. *)
ReleasesLock(d) == Lock[d] /\ ~Lock'[d]

(***************************************************************************)
(* C32: every release of a per-core lock is performed by the core that is  *)
(* the operating core at that moment, or by the loop of KdContinueDebuggee *)
(* that releases all of them; a core that is not operating releases no     *)
(* per-core lock, not even its own.                                        *)
(***************************************************************************)
C32_OnlyOperatingCoreReleasesLocks ==
    [][\A d \in Cores :
          ReleasesLock(d) =>
             \E c \in Cores :
                Steps(c) /\ (CurrentOperatingCore[c] \/ pc[c] = "c_unlock")]_vars

(* The step writes g_DebuggeeHaltReason or g_DebuggeeHaltTag. *)
WritesHaltContext == halt' # halt

(* Core c was granted its lock in the park loop with its operating flag set. *)
TakingOver(c) == pc[c] = "m_check" /\ CurrentOperatingCore[c]

(* The halt reason is not-paused and the tag is cleared. *)
HaltContextCleared ==
    g_DebuggeeHaltReason = "NOT_PAUSED" /\ g_DebuggeeHaltTag = NoEvent

(***************************************************************************)
(* C33: the global halt context follows the breakpoint lock: the halt      *)
(* reason and tag are written only by the core that holds the breakpoint   *)
(* lock or by the core that takes over after a change-core, and whenever   *)
(* the breakpoint lock is free the halt reason is not-paused and the tag   *)
(* is cleared.                                                             *)
(***************************************************************************)
C33_HaltContextFollowsBreakpointLock ==
    /\ [][WritesHaltContext
            => \E c \in Cores :
                  /\ Steps(c)
                  /\ \/ InEntryPoint(c) /\ DebuggerHandleBreakpointLock
                     \/ TakingOver(c)]_vars
    /\ [](~DebuggerHandleBreakpointLock => HaltContextCleared)

C33_Witness ==
    /\ pc[1] = "m_main"
    /\ via[1] = "nmi"
    /\ DebuggerHandleBreakpointLock
    /\ g_DebuggeeHaltReason = "CORE_SWITCHED"

(* Core c passes the test of its flag in the entry point. *)
DecidesBroadcast(c) == pc[c] = "e_lockself" /\ pc'[c] # "e_lockself"

(* Core c executes a step command. *)
StepCommand(c) == Dispatches(c) /\ RequestedAction(RecvBuffer'[c]) = "STEP"

(* Core c was halted by the NMI and has not been released since. *)
StillParked(c) == via[c] = "nmi" /\ pc[c] \in {"n_lock", "m_park"}

(***************************************************************************)
(* C34: the entry point sends the halt NMI to the other cores exactly when *)
(* the trapping core's DoNotNmiNotifyOtherCoresByThisCore is false; the    *)
(* flag is set only by a step on that core; the halt that finds it set     *)
(* skips the broadcast and resets it, so the halt after that one           *)
(* broadcasts again; and a broadcast is skipped only while every other     *)
(* core is still parked.                                                   *)
(***************************************************************************)
C34_BroadcastFollowsFlag ==
    [][\A c \in Cores :
          /\ DecidesBroadcast(c)
                => /\ (pc'[c] = "e_nmi_lock")
                         <=> ~DoNotNmiNotifyOtherCoresByThisCore[c]
                   /\ ~DoNotNmiNotifyOtherCoresByThisCore'[c]
          /\ (pc'[c] = "e_nmi_lock" /\ pc[c] # "e_nmi_lock")
                => DecidesBroadcast(c)
          /\ (~DoNotNmiNotifyOtherCoresByThisCore[c]
                 /\ DoNotNmiNotifyOtherCoresByThisCore'[c]) => StepCommand(c)
          /\ (DoNotNmiNotifyOtherCoresByThisCore[c]
                 /\ ~DoNotNmiNotifyOtherCoresByThisCore'[c])
                => DecidesBroadcast(c)
          /\ (DecidesBroadcast(c) /\ DoNotNmiNotifyOtherCoresByThisCore[c])
                => \A d \in Cores \ {c} : StillParked(d)]_vars

(* The buffer r passed the indicator and checksum tests and its packet type *)
(* is not debugger-to-debuggee-execute (Kd.c:1298).                         *)
WrongType(r) == Verdict(r) = "type"

(* C35: a received packet that passes the indicator and checksum tests but  *)
(* whose packet type is not debugger-to-debuggee-execute is not dispatched: *)
(* no lock is released, no operating flag changes, no reply is sent, and    *)
(* the dispatcher stays in the loop waiting for the next packet.            *)
C35_WrongTypeNotDispatched ==
    [][\A c \in Cores :
          (Dispatches(c) /\ WrongType(RecvBuffer'[c])) =>
              /\ UNCHANGED kd
              /\ Sent' = Sent]_vars

(* The position of core c in the code the NMI callback interrupted, or its  *)
(* position when no callback is running on it.                              *)
PositionBelowCallback(c) ==
    IF NmiCall[c].Status = "running" THEN NmiCall[c].At ELSE pc[c]

(* Core c is between SpinlockLock and SpinlockUnlock of DebuggerResponseLock. *)
HoldsSendLock(c) == PositionBelowCallback(c) \in {"s_send", "l_send", "e_nmi_send"}

(***************************************************************************)
(* C36: no core is ever parked, blocked on its per-core lock after a halt  *)
(* NMI, while it holds the send lock; so whenever the operating core waits *)
(* for the send lock to send its pause report or a reply, the holder is    *)
(* executing its send and will release the lock.                           *)
(***************************************************************************)
C36_NoCoreParkedWithSendLock ==
    \A c \in Cores :
        /\ Parked(c) => ~HoldsSendLock(c)
        /\ (pc[c] = "s_lock" /\ CurrentOperatingCore[c] /\ DebuggerResponseLock)
              => \E d \in Cores \ {c} : HoldsSendLock(d) /\ ~Parked(d)

(* The dispatcher of core c takes frame f from the debugger: the transport  *)
(* holds no complete buffer and the reception is that of f behind what the  *)
(* transport still holds.                                                   *)
TakesFrame(c, f) ==
    /\ Dispatches(c)
    /\ KdRecvBuffer(Wire).Status = "polling"
    /\ RecvBuffer'[c] = KdRecvBuffer(Wire \o f)

(* The buffer r holds exactly the packet of frame f. *)
ReceivedIntact(r, f) ==
    /\ r.Status = "received"
    /\ r.Length = Len(f) - Len(EndOfBuffer)
    /\ \A i \in 1 .. (Len(f) - Len(EndOfBuffer)) : r.Buffer[i - 1] = f[i]
    /\ r.Rest = <<>>

(***************************************************************************)
(* C37: after KdRecvBuffer fails on an oversized frame the receiver        *)
(* resynchronises: for every length of the oversized frame, the first      *)
(* well-formed packet the debugger sends after the frame's end characters  *)
(* is received intact, passes the indicator and checksum tests and is      *)
(* dispatched.                                                             *)
(***************************************************************************)
C37_ResynchronisesAfterOversizedFrame ==
    [][\A c \in Cores : \A f \in WellFormedFrames :
          TakesFrame(c, f) =>
              /\ ReceivedIntact(RecvBuffer'[c], f)
              /\ Verdict(RecvBuffer'[c]) = "none"]_vars

====
